---- MODULE Spec2Model ----
(***************************************************************************)
(* Model of the streaming transcription engine of vissper:                *)
(*   src/src/transcription/mod.rs            (start_azure / start_openai) *)
(*   src/src/transcription/azure_connection.rs, openai_connection.rs      *)
(*   src/src/transcription/session.rs                                     *)
(*   src/src/recording/mod.rs                (stop_audio_capture)         *)
(*   src/src/audio/mod.rs, audio/types.rs    (capture queue, handle)      *)
(*                                                                         *)
(* An AudioChunk is represented by its capture sequence number.  A text   *)
(* is a sequence of one-character strings.  Option<T> is <<>> (None) or   *)
(* <<x>> (Some(x)).  A TranscriptEvent is a tuple whose first element is  *)
(* the variant name.                                                      *)
(***************************************************************************)
EXTENDS Integers, Sequences, FiniteSets, TLC

\* ---------------------------------------------------------------- bounds
AudioQueueCap == 1
AudioBufferCap == 2
\* per specification: chunks captured, transcript/error messages received,
\* connection attempts accepted and refused
AudioChunks == 3
AudioAccepts == 2
AudioRefusals == 0
EventMsgs == 1
EventAccepts == 1
EventRefusals == 1
RetryChunks == 3
RetryAccepts == 1
RetryRefusals == 5

\* ------------------------------------------------------ program constants
MAX_RECONNECT_ATTEMPTS == 5
MAX_BUFFER_SECS == 30
CHUNK_SIZE == 1600
AZURE_SAMPLE_RATE == 16000
OPENAI_SAMPLE_RATE == 24000
TARGET_SAMPLE_RATE == AZURE_SAMPLE_RATE

Providers == {"Azure", "OpenAI"}

\* texts a provider may stream (non-empty; one of them is whitespace only)
Texts == {<<"h", "i">>, <<" ">>}

\* error messages, as the set of marker substrings they contain
ErrorMsgs == {{"buffer too small", "0.00ms"}, {"quota"}}

\* capture callbacks per run of the capture specification
Callbacks == 2
\* frames the device may hand to one callback
CallbackFrames == {800, 4800}
\* sample rates and channel counts the input device may be configured with
DeviceRates == {16000, 48000}
DeviceChannels == {1, 2}
\* the ways run_capture fails before the stream plays
CaptureFaults == {"NoInputDevice", "ConfigError", "NoSupportedConfig",
                  "DefaultConfigError", "UnsupportedFormat", "StreamError", "PlayError"}

\* transcript messages and screenshots per run of the screenshot specification
ShotMsgs == 2
Screenshots == 2
\* relative paths of screenshots: the file name carries the time of capture
ScreenshotPaths == {"screenshots/screenshot-1.png", "screenshots/screenshot-2.png"}

\* transcript messages per run of the session specification
SessionMsgs == 3
\* provider messages per run of the provider specification
ProviderMsgs == 3
\* connections the provider accepts in the failing-recovery specification
FlakyAccepts == 7
\* chunks captured in the failing-recovery specification
FlakyChunks == 1
\* provider messages and accepted connections of the terminal specification
TerminalMsgs == 2
TerminalAccepts == 2
\* chunks captured per run of the window specification
WindowChunks == 3
\* transcript messages and accepted connections of the segment specification
SegmentMsgs == 2
SegmentAccepts == 1
\* chunks captured and transcript messages per run of the polish specification
PolishChunks == 1
PolishMsgs == 1
\* callbacks per run of the passthrough specification, and their sizes in
\* mono samples
DirectCallbacks == 3
DirectFrames == {800, 1600, 1601, 3200}
\* calls of AudioCaptureHandle::stop per run
StopCalls == 2
\* capture callbacks that deliver one second of frames between them
SecondCallbacks == 10
\* provider messages per run of the subscriber specification
SubscriberMsgs == 4
\* values the broadcast channel retains (100 asked for in the source)
EventChannelCap == 2
\* receivers obtained from subscribe before the engine starts
Subscribers == {1, 2}
\* calls of full_transcript per run of the session specification
TranscriptCalls == 2
\* texts streamed in the session specification: a word growing as it is heard
SessionTexts == {<<"h", "e", "l">>, <<"h", "e", "l", "l", "o">>}
\* error messages of the session specification: those above, and the texts
\* on which the two providers' tests differ
SessionErrors == ErrorMsgs \cup {{"buffer too small"}, {"empty"}}

None == <<>>
Some(x) == <<x>>

VARIABLES
    provider,            \* which engine runs: start_azure or start_openai
    request_ok,          \* whether build_*_ws_request succeeds for the given key/url
    capture_open,        \* AudioCaptureHandle.is_capturing / capture thread alive
    next_chunk,          \* sequence number of the next chunk the chunker emits
    audio_q,             \* capture queue chunk_tx -> audio_rx
    dropped,             \* chunks dropped by the capture callback on a full queue
    fwd_pc,              \* audio_forwarder position: "Recv", "Send", "Done"
    fwd_chunk,           \* chunk the forwarder holds while blocked in send
    int_q,               \* internal channel audio_buffer_tx -> audio_buffer_rx
    main_pc,             \* position of start_azure/start_openai
    reconnect_attempts,
    is_first_connection,
    pending_chunks,      \* start_*'s pending_chunks
    result,              \* return value of start_*: "none", "Ok", "Err"
    send_pc,             \* send task: "Idle", "Loop", "Done"
    sent_buffer,
    send_result,         \* [pending_chunks, stopped_by_user] of the send task
    conn_lost_signal,    \* a () is queued in connection_lost_tx
    recv_pc,             \* receive task: "Idle", "Loop", "Done"
    connection_ok,
    quota_exceeded,
    should_stop,
    committed_segments,
    partial_transcript,
    manually_stopped,
    events,              \* everything sent on event_tx, in order
    wire,                \* messages written on the current connection
    sink_closed,         \* ws_sink.close() was called on the current connection
    chunks_left,         \* chunks the capture side may still produce
    msgs_left,           \* transcript/error messages the provider may still send
    conn_ok_left,        \* connection attempts the provider may still accept
    conn_fail_left,      \* connection attempts the provider may still refuse
    \* history variables (not program state)
    written,             \* chunks written successfully to some connection
    resend_set,          \* pending_chunks when the current connection was established
    recovered,           \* inputs of the last recover_*_buffered_chunks call
    write_failed,        \* the send task of the current connection saw a write fail
    faulted,             \* the provider side broke the current connection
    end_reason,          \* why the main loop was left
    quota_idx,           \* Len(events) when the provider signalled quota, else -1
    stop_idx,            \* Len(events) when the user stopped capture, else -1
    stop_conn,           \* conn_ok_left if the user stopped while both tasks ran on
                         \* an unbroken connection, else -1
    stop_queued,         \* chunks still queued when the user stopped capture
    stop_calls,          \* calls of AudioCaptureHandle::stop so far
    frames,              \* text frames the receive-loop has handled, in order
    polish_transcript,   \* the transcript stop_recording handed to polishing, if any
    transcripts,         \* calls of full_transcript: the value returned and the
                         \* session it was called on
    calls_left,          \* calls of full_transcript that may still be made
    screenshots,         \* paths given to insert_screenshot, in call order
    start_result,        \* what start_capture_with_sample_rate returned: "none", "Ok", "Err"
    handle_dropped_at,   \* next_chunk when the AudioCaptureHandle was dropped without
                         \* stop, else -1
    capture_thread,      \* run_capture: "NotStarted", "Spawned", "Running", "Failed"
    capture_error,       \* the AudioCaptureError run_capture ended with, if any
    target_sample_rate,  \* the rate capture was started with
    device_rate,         \* sample rate of the stream configuration
    channels,            \* channels of the stream configuration
    resampler,           \* whether run_capture holds a resampler (Some) or not (None)
    input_chunk_size,
    input_buf,           \* samples in input_buffer
    output_buf,          \* samples in output_buffer
    chunk_log,           \* chunk_log[c]: the AudioChunk with sequence number c
    callbacks_left,      \* capture callbacks that may still run
    mono_in,             \* the mono samples handed to process_direct so far
    out_samples,         \* the samples in output_buffer (passthrough)
    emitted,             \* the chunks process_direct has enqueued, in order
    event_rx_next,       \* event_rx_next[s]: events emitted before the one subscriber
                         \* s receives next
    handled,             \* handled[s]: events passed to handle_transcript_event
    handler_running      \* handler_running[s]: run_event_handler is in its loop

vars == <<provider, request_ok, capture_open, next_chunk, audio_q, dropped, fwd_pc,
          fwd_chunk, int_q, main_pc, reconnect_attempts, is_first_connection,
          pending_chunks, result, send_pc, sent_buffer, send_result,
          conn_lost_signal, recv_pc, connection_ok, quota_exceeded, should_stop,
          committed_segments, partial_transcript, manually_stopped, events, wire,
          sink_closed, chunks_left, msgs_left, conn_ok_left, conn_fail_left, written,
          resend_set, recovered, write_failed, faulted, end_reason, quota_idx,
          stop_idx, stop_conn, stop_queued, stop_calls, frames, polish_transcript, transcripts, calls_left,
          screenshots, start_result, handle_dropped_at, capture_thread, capture_error, target_sample_rate,
          device_rate, channels, resampler, input_chunk_size, input_buf, output_buf,
          chunk_log, callbacks_left, mono_in, out_samples, emitted, event_rx_next,
          handled, handler_running>>

captureVars == <<capture_open, next_chunk, audio_q, dropped, chunks_left>>
fwdVars == <<fwd_pc, fwd_chunk>>
mainVars == <<main_pc, reconnect_attempts, is_first_connection, pending_chunks,
              result, conn_ok_left, conn_fail_left, resend_set, end_reason>>
sendVars == <<send_pc, sent_buffer, send_result, recovered, write_failed>>
recvVars == <<recv_pc, connection_ok, quota_exceeded, msgs_left, quota_idx, frames>>
sessionVars == <<committed_segments, partial_transcript>>
stopVars == <<manually_stopped, stop_idx, stop_conn, stop_queued, stop_calls>>
constVars == <<provider, request_ok>>
subVars == <<event_rx_next, handled, handler_running>>
callVars == <<transcripts, calls_left, screenshots, polish_transcript>>
streamVars == <<target_sample_rate, device_rate, channels, resampler, input_chunk_size>>
directVars == <<mono_in, out_samples, emitted>>
chunkerVars == <<start_result, handle_dropped_at, capture_thread, capture_error, streamVars, input_buf,
                 output_buf, chunk_log, callbacks_left, directVars>>

\* ------------------------------------------------------------- helpers
Range(s) == {s[i] : i \in DOMAIN s}

IsWhitespace(ch) == ch \in {" ", "\t", "\n", "\r"}

RECURSIVE TrimStart(_)
TrimStart(s) ==
    IF s = <<>> THEN <<>>
    ELSE IF IsWhitespace(Head(s)) THEN TrimStart(Tail(s)) ELSE s

RECURSIVE TrimEnd(_)
TrimEnd(s) ==
    IF s = <<>> THEN <<>>
    ELSE IF IsWhitespace(s[Len(s)]) THEN TrimEnd(SubSeq(s, 1, Len(s) - 1)) ELSE s

\* str::trim
Trim(s) == TrimEnd(TrimStart(s))

\* variant: a sender that waits for room while a running subscriber is a
\* full channel behind
Emit_when_room(e) ==
    /\ \A s \in Subscribers :
          handler_running[s] => Len(events) - event_rx_next[s] < EventChannelCap
    /\ events' = Append(events, e)

\* event_tx.send on the broadcast channel: the value is stored, over the
\* oldest one when the channel is full, and the call returns
Emit(e) == events' = Append(events, e)

AudioMsg(c) == <<"audio", c>>

RECURSIVE AudioMsgs(_)
AudioMsgs(cs) == IF cs = <<>> THEN <<>> ELSE <<AudioMsg(Head(cs))>> \o AudioMsgs(Tail(cs))

\* the chunk numbers of the audio-append messages of a wire log, in order
RECURSIVE AudioOf(_)
AudioOf(w) ==
    IF w = <<>> THEN <<>>
    ELSE IF Head(w)[1] = "audio" THEN <<Head(w)[2]>> \o AudioOf(Tail(w))
    ELSE AudioOf(Tail(w))

Terminated == main_pc \in {"AwaitForwarder", "Returned", "ReturnedErr"}


\* ------------------------------------------------------------------ Init
\* State when start_azure/start_openai is entered: capture has been started
\* (start_capture_with_sample_rate), the client holds a default session.
InitWith(chunks, messages, accepts, refusals) ==
    /\ chunks_left = chunks
    /\ msgs_left = messages
    /\ conn_ok_left = accepts
    /\ conn_fail_left = refusals
    /\ provider \in Providers
    /\ request_ok \in BOOLEAN
    /\ capture_open = TRUE
    /\ next_chunk = 1
    /\ audio_q = <<>>
    /\ dropped = {}
    /\ fwd_pc = "Recv"
    /\ fwd_chunk = None
    /\ int_q = <<>>
    /\ main_pc = "LoopTop"
    /\ reconnect_attempts = 0
    /\ is_first_connection = TRUE
    /\ pending_chunks = <<>>
    /\ result = "none"
    /\ send_pc = "Idle"
    /\ sent_buffer = <<>>
    /\ send_result = [pending_chunks |-> <<>>, stopped_by_user |-> FALSE]
    /\ conn_lost_signal = FALSE
    /\ recv_pc = "Idle"
    /\ connection_ok = TRUE
    /\ quota_exceeded = FALSE
    /\ should_stop = FALSE
    /\ committed_segments = <<>>
    /\ partial_transcript = None
    /\ manually_stopped = FALSE
    /\ events = <<>>
    /\ wire = <<>>
    /\ sink_closed = FALSE
    /\ written = {}
    /\ resend_set = <<>>
    /\ recovered = [sent |-> <<>>, failed |-> <<>>, queued |-> <<>>]
    /\ write_failed = FALSE
    /\ faulted = FALSE
    /\ end_reason = "none"
    /\ quota_idx = -1
    /\ stop_idx = -1
    /\ stop_conn = -1
    /\ stop_queued = <<>>
    /\ stop_calls = 0
    /\ frames = <<>>
    /\ transcripts = <<>>
    /\ polish_transcript = None
    /\ screenshots = <<>>
    /\ target_sample_rate = (IF provider = "Azure" THEN AZURE_SAMPLE_RATE
                             ELSE OPENAI_SAMPLE_RATE)
    /\ capture_error = None
    /\ input_buf = 0
    /\ output_buf = 0
    /\ mono_in = <<>>
    /\ out_samples = <<>>
    /\ emitted = <<>>
    /\ chunk_log = <<>>
    /\ handle_dropped_at = -1
    /\ event_rx_next = [s \in Subscribers |-> 0]
    /\ handled = [s \in Subscribers |-> <<>>]
    /\ handler_running = [s \in Subscribers |-> TRUE]

\* start_capture_with_sample_rate returned and run_capture plays a stream at
\* the target rate; the chunker is the Produce step
CaptureRunning ==
    /\ start_result = "Ok"
    /\ capture_thread = "Running"
    /\ device_rate = target_sample_rate
    /\ channels = 1
    /\ resampler = FALSE
    /\ input_chunk_size = CHUNK_SIZE
    /\ callbacks_left = 0

\* --------------------------------------------------------------- capture
\* The chunker hands a chunk to the capture queue with a non-blocking
\* enqueue; on a full queue the chunk is dropped.
Produce ==
    /\ capture_open
    /\ chunks_left > 0
    /\ chunks_left' = chunks_left - 1
    /\ next_chunk' = next_chunk + 1
    /\ IF Len(audio_q) < AudioQueueCap
       THEN audio_q' = Append(audio_q, next_chunk) /\ UNCHANGED dropped
       ELSE dropped' = dropped \cup {next_chunk} /\ UNCHANGED audio_q
    /\ chunk_log' = Append(chunk_log, [samples |-> CHUNK_SIZE,
                                       sample_rate |-> TARGET_SAMPLE_RATE])
    /\ UNCHANGED <<capture_open, fwdVars, int_q, mainVars, sendVars, conn_lost_signal,
                   recvVars, should_stop, sessionVars, stopVars, events, wire,
                   sink_closed, faulted, written, constVars, subVars, callVars, start_result,
                   handle_dropped_at,
                   capture_thread, capture_error, streamVars, input_buf, output_buf,
                   callbacks_left, directVars>>

\* start_capture_with_sample_rate: spawn the capture thread, return the
\* handle and the receiving end of the queue
start_capture_with_sample_rate ==
    /\ capture_thread = "NotStarted"
    /\ capture_thread' = "Spawned"
    /\ start_result' = "Ok"
    /\ UNCHANGED <<handle_dropped_at, captureVars, fwdVars, int_q, mainVars, sendVars, conn_lost_signal,
                   recvVars, should_stop, sessionVars, stopVars, events, wire,
                   sink_closed, faulted, written, constVars, subVars, callVars, capture_error,
                   streamVars, input_buf, output_buf, chunk_log, callbacks_left, directVars>>

\* input_frames: the input chunk that resamples to about CHUNK_SIZE samples
input_frames(rate, target) == (CHUNK_SIZE * rate + target - 1) \div target

\* run_capture up to stream.play(): it fails with an AudioCaptureError (the
\* thread logs it and ends, dropping chunk_tx), or it settles the stream
\* configuration and the resampler and plays
run_capture(fault, rate, ch, resampler_ok) ==
    /\ capture_thread = "Spawned"
    /\ IF fault # "none"
       THEN /\ capture_thread' = "Failed"
            /\ capture_error' = Some(fault)
            /\ UNCHANGED <<device_rate, channels, resampler, input_chunk_size>>
       ELSE /\ capture_thread' = "Running"
            /\ device_rate' = rate
            /\ channels' = ch
            /\ resampler' = (rate # target_sample_rate /\ resampler_ok)
            /\ input_chunk_size' = IF rate # target_sample_rate /\ resampler_ok
                                   THEN input_frames(rate, target_sample_rate)
                                   ELSE CHUNK_SIZE
            /\ UNCHANGED capture_error
    /\ UNCHANGED <<captureVars, fwdVars, int_q, mainVars, sendVars, conn_lost_signal,
                   recvVars, should_stop, sessionVars, stopVars, events, wire,
                   sink_closed, faulted, written, constVars, subVars, callVars, start_result,
                   handle_dropped_at,
                   target_sample_rate, input_buf, output_buf, chunk_log,
                   callbacks_left, directVars>>

\* data.chunks(channels): one mono sample per frame, a short last frame included
mono_samples(data_len, ch) ==
    IF ch > 1 THEN (data_len + ch - 1) \div ch ELSE data_len

\* what resampler.process appends for one input chunk: about
\* input * target / rate samples, or nothing when it returns an error
Resampled(n_in) ==
    LET n == (n_in * target_sample_rate) \div device_rate
    IN  {n - 1, n, n + 1, 0}

\* what the resampling loop appends for k input chunks
RECURSIVE ResampledTotals(_, _)
ResampledTotals(k, n_in) ==
    IF k = 0 THEN {0}
    ELSE {t + o : t \in ResampledTotals(k - 1, n_in), o \in Resampled(n_in)}

\* variant: a buffer of exactly one chunk waits for more
ChunkReady_over(len) == len > CHUNK_SIZE

\* variant: the loop runs while the buffer holds anything
ChunkReady_any(len) == len > 0

\* the loop test of process_direct and send_chunks
ChunkReady(len) == len >= CHUNK_SIZE

\* output_buf.drain(..CHUNK_SIZE) as far as the buffer goes
drain(len) == IF len < CHUNK_SIZE THEN len ELSE CHUNK_SIZE

\* variant: the enqueue waits for room (send().await / blocking_send)
try_send_blocking(room) == IF room > 0 THEN "Ok" ELSE "wait"

\* sender.try_send on a queue with that much room
try_send(room) == IF room > 0 THEN "Ok" ELSE "Full"

\* the loop of process_direct and send_chunks on a buffer of len samples and
\* a queue with that much room: the chunks sent, the chunk dropped if the
\* queue was full, what stays in the buffer, and whether the loop suspended
RECURSIVE send_chunks(_, _, _)
send_chunks(len, room, sent) ==
    IF ChunkReady(len)
    THEN LET audio_chunk == [samples |-> drain(len),
                             sample_rate |-> TARGET_SAMPLE_RATE]
         IN  CASE try_send(room) = "Ok" ->
                     send_chunks(len - audio_chunk.samples, room - 1,
                                 Append(sent, audio_chunk))
               [] try_send(room) = "Full" ->
                     [buf |-> len - audio_chunk.samples, sent |-> sent,
                      overflow |-> <<audio_chunk>>, blocked |-> FALSE]
               [] OTHER ->
                     [buf |-> len - audio_chunk.samples, sent |-> sent,
                      overflow |-> <<>>, blocked |-> TRUE]
    ELSE [buf |-> len, sent |-> sent, overflow |-> <<>>, blocked |-> FALSE]

\* the input callback of the stream: is_capturing is set, so process_samples
\* runs on the frames the device hands over
process_samples(nframes) ==
    /\ capture_thread = "Running"
    /\ capture_open
    /\ callbacks_left > 0
    /\ callbacks_left' = callbacks_left - 1
    /\ LET mono == mono_samples(nframes * channels, channels)
           in_total == input_buf + mono
       IN  \E added \in (IF resampler
                          THEN ResampledTotals(in_total \div input_chunk_size,
                                               input_chunk_size)
                          ELSE {mono}) :
             LET r == send_chunks(output_buf + added, AudioQueueCap - Len(audio_q), <<>>)
                 n_sent == Len(r.sent)
             IN  /\ ~r.blocked
                 /\ input_buf' = IF resampler THEN in_total % input_chunk_size
                                 ELSE input_buf
                 /\ output_buf' = r.buf
                 /\ chunk_log' = chunk_log \o r.sent \o r.overflow
                 /\ audio_q' = audio_q \o [i \in 1..n_sent |-> next_chunk + i - 1]
                 /\ dropped' = dropped \cup
                                 {next_chunk + n_sent + i - 1 : i \in DOMAIN r.overflow}
                 /\ next_chunk' = next_chunk + n_sent + Len(r.overflow)
    /\ UNCHANGED <<capture_open, chunks_left, fwdVars, int_q, mainVars, sendVars,
                   conn_lost_signal, recvVars, should_stop, sessionVars, stopVars,
                   events, wire, sink_closed, faulted, written, constVars, subVars, callVars,
                   start_result, handle_dropped_at, capture_thread, capture_error,
                   streamVars, directVars>>

\* the loop of process_direct on the samples themselves: drain the first
\* CHUNK_SIZE samples into a chunk and try_send it, until the buffer is short
\* of a chunk or the queue refuses (the function returns, the chunk is lost)
RECURSIVE direct_chunks(_, _, _)
direct_chunks(buf, room, sent) ==
    IF ChunkReady(Len(buf))
    THEN LET chunk == SubSeq(buf, 1, drain(Len(buf)))
             rest == SubSeq(buf, Len(chunk) + 1, Len(buf))
         IN  IF try_send(room) = "Ok"
             THEN direct_chunks(rest, room - 1, Append(sent, chunk))
             ELSE [buf |-> rest, sent |-> sent, overflow |-> <<chunk>>]
    ELSE [buf |-> buf, sent |-> sent, overflow |-> <<>>]

\* the input callback on a stream at the target rate: process_samples hands
\* the mono samples (numbered as they arrive) to process_direct, which
\* extends output_buffer and sends the complete chunks
process_direct(n) ==
    /\ capture_thread = "Running"
    /\ capture_open
    /\ ~resampler
    /\ callbacks_left > 0
    /\ callbacks_left' = callbacks_left - 1
    /\ LET samples == [i \in 1..n |-> Len(mono_in) + i]
           r == direct_chunks(out_samples \o samples,
                              AudioQueueCap - Len(audio_q), <<>>)
           n_sent == Len(r.sent)
           made == r.sent \o r.overflow
       IN  /\ mono_in' = mono_in \o samples
           /\ out_samples' = r.buf
           /\ emitted' = emitted \o r.sent
           /\ output_buf' = Len(r.buf)
           /\ chunk_log' = chunk_log \o
                             [i \in DOMAIN made |-> [samples |-> Len(made[i]),
                                                      sample_rate |-> TARGET_SAMPLE_RATE]]
           /\ audio_q' = audio_q \o [i \in 1..n_sent |-> next_chunk + i - 1]
           /\ dropped' = dropped \cup
                           {next_chunk + n_sent + i - 1 : i \in DOMAIN r.overflow}
           /\ next_chunk' = next_chunk + Len(made)
    /\ UNCHANGED <<capture_open, chunks_left, fwdVars, int_q, mainVars, sendVars,
                   conn_lost_signal, recvVars, should_stop, sessionVars, stopVars,
                   events, wire, sink_closed, faulted, written, constVars, subVars, callVars,
                   start_result, handle_dropped_at, capture_thread, capture_error,
                   streamVars, input_buf>>

\* chunks not yet seen by the send-loop, oldest first: internal queue,
\* forwarder, capture queue
Queued == int_q \o fwd_chunk \o audio_q

\* the AudioCaptureHandle goes out of scope without stop: the type has no
\* Drop, so its fields are dropped: one reference to is_capturing, whose
\* value stays set, and the JoinHandle, which detaches the capture thread
drop_handle ==
    /\ start_result = "Ok"
    /\ handle_dropped_at = -1
    /\ capture_open
    /\ handle_dropped_at' = next_chunk
    /\ UNCHANGED <<captureVars, fwdVars, int_q, mainVars,
                   sendVars, conn_lost_signal, recvVars, should_stop, sessionVars,
                   stopVars, events, wire, sink_closed, faulted, written, constVars,
                   subVars, callVars, start_result, capture_thread, capture_error,
                   streamVars, input_buf, output_buf, chunk_log, callbacks_left, directVars>>

\* stop_audio_capture: mark the session manually stopped, then
\* AudioCaptureHandle::stop (joins the capture thread, which drops chunk_tx)
stop_audio_capture ==
    /\ capture_open
    /\ start_result = "Ok"
    /\ handle_dropped_at = -1
    /\ main_pc \notin {"Returned", "ReturnedErr"}
    /\ manually_stopped' = TRUE
    /\ capture_open' = FALSE
    /\ stop_idx' = Len(events)
    /\ stop_conn' = IF send_pc = "Loop" /\ recv_pc = "Loop" /\ ~faulted
                    THEN conn_ok_left ELSE -1
    /\ stop_queued' = Queued
    /\ stop_calls' = stop_calls + 1
    /\ UNCHANGED <<next_chunk, audio_q, dropped, chunks_left, fwdVars, int_q, mainVars,
                   sendVars,
                   conn_lost_signal, recvVars, should_stop, sessionVars, events, wire,
                   sink_closed, faulted, written, constVars, subVars, callVars, chunkerVars>>

\* AudioCaptureHandle::stop: clear is_capturing, and if thread_handle still
\* holds the JoinHandle take it and join the capture thread, which drops the
\* stream and chunk_tx; a handle stopped before has nothing left to join
AudioCaptureHandle_stop ==
    /\ start_result = "Ok"
    /\ handle_dropped_at = -1
    /\ stop_calls < StopCalls
    /\ stop_calls' = stop_calls + 1
    /\ capture_open' = FALSE
    /\ UNCHANGED <<next_chunk, audio_q, dropped, chunks_left, fwdVars, int_q, mainVars,
                   sendVars, conn_lost_signal, recvVars, should_stop, sessionVars,
                   manually_stopped, stop_idx, stop_conn, stop_queued, events, wire,
                   sink_closed, faulted, written, constVars, subVars, callVars, chunkerVars>>

\* TranscriptionClient::stop
stop ==
    /\ ~should_stop
    /\ main_pc \notin {"Returned", "ReturnedErr"}
    /\ should_stop' = TRUE
    /\ UNCHANGED <<captureVars, fwdVars, int_q, mainVars, sendVars, conn_lost_signal,
                   recvVars, sessionVars, stopVars, events, wire, sink_closed, faulted,
                   written, constVars, subVars, callVars, chunkerVars>>

\* TranscriptionClient::clear_session: the session becomes the default one
clear_session ==
    /\ committed_segments' = <<>>
    /\ partial_transcript' = None
    /\ manually_stopped' = FALSE
    /\ UNCHANGED <<captureVars, fwdVars, int_q, mainVars, sendVars, conn_lost_signal,
                   recvVars, should_stop, stop_idx, stop_conn, stop_queued, stop_calls, events, wire,
                   sink_closed, faulted, written, constVars, subVars, callVars, chunkerVars>>

\* ------------------------------------------------------------- forwarder
\* audio_rx.recv() returned Some(chunk): test should_stop, then send to the
\* internal channel (completes at once when the channel has room, fails when
\* the receiver is gone, suspends when the channel is full).
audio_forwarder_recv ==
    /\ fwd_pc = "Recv"
    /\ audio_q # <<>>
    /\ audio_q' = Tail(audio_q)
    /\ IF should_stop \/ main_pc = "ReturnedErr"
       THEN fwd_pc' = "Done" /\ UNCHANGED <<fwd_chunk, int_q>>
       ELSE IF Len(int_q) < AudioBufferCap
            THEN /\ int_q' = Append(int_q, Head(audio_q))
                 /\ UNCHANGED <<fwd_pc, fwd_chunk>>
            ELSE /\ fwd_pc' = "Send"
                 /\ fwd_chunk' = Some(Head(audio_q))
                 /\ UNCHANGED int_q
    /\ UNCHANGED <<capture_open, next_chunk, dropped, chunks_left, mainVars, sendVars,
                   conn_lost_signal, recvVars, should_stop, sessionVars, stopVars,
                   events, wire, sink_closed, faulted, written, constVars, subVars, callVars, chunkerVars>>

\* variant: end-of-stream is seen as soon as the capture side has closed,
\* whatever the queue still holds
audio_forwarder_closed_early ==
    /\ fwd_pc = "Recv"
    /\ ~capture_open \/ capture_thread = "Failed"
    /\ fwd_pc' = "Done"
    /\ UNCHANGED <<captureVars, fwd_chunk, int_q, mainVars, sendVars,
                   conn_lost_signal, recvVars, should_stop, sessionVars, stopVars,
                   events, wire, sink_closed, faulted, written, constVars, subVars, callVars, chunkerVars>>

\* audio_rx.recv() returned None: the capture side closed the queue
audio_forwarder_closed ==
    /\ fwd_pc = "Recv"
    /\ audio_q = <<>>
    /\ ~capture_open \/ capture_thread = "Failed"
    /\ fwd_pc' = "Done"
    /\ UNCHANGED <<captureVars, fwd_chunk, int_q, mainVars, sendVars,
                   conn_lost_signal, recvVars, should_stop, sessionVars, stopVars,
                   events, wire, sink_closed, faulted, written, constVars, subVars, callVars, chunkerVars>>

\* the suspended audio_buffer_tx.send(chunk) completes
audio_forwarder_send ==
    /\ fwd_pc = "Send"
    /\ \/ /\ main_pc = "ReturnedErr"
          /\ fwd_pc' = "Done"
          /\ fwd_chunk' = None
          /\ UNCHANGED int_q
       \/ /\ main_pc # "ReturnedErr"
          /\ Len(int_q) < AudioBufferCap
          /\ int_q' = Append(int_q, fwd_chunk[1])
          /\ fwd_chunk' = None
          /\ fwd_pc' = "Recv"
    /\ UNCHANGED <<captureVars, mainVars, sendVars, conn_lost_signal, recvVars,
                   should_stop, sessionVars, stopVars, events, wire, sink_closed,
                   faulted, written, constVars, subVars, callVars, chunkerVars>>


\* ------------------------------------------------- start_azure/start_openai
\* variant: the budget test is off by one
BudgetExhausted_inclusive(attempts) == attempts >= MAX_RECONNECT_ATTEMPTS

\* mod.rs:199  reconnect_attempts > MAX_RECONNECT_ATTEMPTS
BudgetExhausted(attempts) == attempts > MAX_RECONNECT_ATTEMPTS

\* variant: the loop goes on to another attempt after ReconnectFailed
AfterReconnectFailed_retries == "Connect"

\* mod.rs:205  break: the loop is left for audio_forwarder.await
AfterReconnectFailed == "AwaitForwarder"

\* head of the connection loop: stop check and reconnection bookkeeping
MainLoopTop ==
    /\ main_pc = "LoopTop"
    /\ IF should_stop
       THEN /\ main_pc' = "AwaitForwarder"
            /\ end_reason' = "should_stop"
            /\ UNCHANGED <<reconnect_attempts, events>>
       ELSE IF ~is_first_connection
            THEN /\ reconnect_attempts' = reconnect_attempts + 1
                 /\ IF BudgetExhausted(reconnect_attempts + 1)
                    THEN /\ Emit(<<"ReconnectFailed">>)
                         /\ main_pc' = AfterReconnectFailed
                         /\ end_reason' = "reconnect_failed"
                    ELSE /\ Emit(<<"Reconnecting", reconnect_attempts + 1>>)
                         /\ main_pc' = "Connect"
                         /\ UNCHANGED end_reason
            ELSE /\ main_pc' = "Connect"
                 /\ UNCHANGED <<reconnect_attempts, events, end_reason>>
    /\ UNCHANGED <<captureVars, fwdVars, int_q, is_first_connection, pending_chunks,
                   result, conn_ok_left, conn_fail_left, resend_set, sendVars,
                   conn_lost_signal, recvVars, should_stop, sessionVars, stopVars,
                   wire, sink_closed, faulted, written, constVars, subVars, callVars, chunkerVars>>

\* build the request and connect with a timeout; outcome is the provider's
ConnectOutcomes == {"connected", "handshake_error", "timeout"}

\* variant: a failed first attempt is retried like a later one
ConnectFailed_retries(emit_lost) ==
    /\ IF emit_lost THEN Emit(<<"ConnectionLost">>) ELSE UNCHANGED events
    /\ main_pc' = "LoopTop"
    /\ UNCHANGED result

\* an attempt failed (request not built, handshake error, timeout): the first
\* attempt returns the error, a later one goes back to the head of the loop;
\* only a failed handshake or a timeout emits ConnectionLost
ConnectFailed(emit_lost) ==
    IF is_first_connection
    THEN /\ main_pc' = "ReturnedErr"
         /\ result' = "Err"
         /\ UNCHANGED events
    ELSE /\ IF emit_lost THEN Emit(<<"ConnectionLost">>) ELSE UNCHANGED events
         /\ main_pc' = "LoopTop"
         /\ UNCHANGED result

\* variant: a successful reconnection leaves the counter as it is
attempts_kept(attempts) == attempts

\* mod.rs:266  reconnect_attempts = 0
attempts_reset(attempts) == 0

Connect(outcome) ==
    /\ main_pc = "Connect"
    /\ IF ~request_ok
       THEN \* build_*_ws_request failed
            /\ ConnectFailed(FALSE)
            /\ UNCHANGED <<is_first_connection, reconnect_attempts, conn_ok_left,
                           conn_fail_left, wire, sink_closed, faulted, resend_set>>
       ELSE IF outcome # "connected"
            THEN /\ conn_fail_left > 0
                 /\ conn_fail_left' = conn_fail_left - 1
                 /\ ConnectFailed(TRUE)
                 /\ UNCHANGED <<is_first_connection, reconnect_attempts, conn_ok_left,
                                wire, sink_closed, faulted, resend_set>>
            ELSE /\ conn_ok_left > 0
                 /\ conn_ok_left' = conn_ok_left - 1
                 /\ IF ~is_first_connection
                    THEN /\ Emit(<<"Reconnected">>)
                         /\ reconnect_attempts' = attempts_reset(reconnect_attempts)
                    ELSE UNCHANGED <<events, reconnect_attempts>>
                 /\ is_first_connection' = FALSE
                 /\ wire' = <<>>
                 /\ sink_closed' = FALSE
                 /\ faulted' = FALSE
                 /\ resend_set' = pending_chunks
                 /\ main_pc' = "SessionInit"
                 /\ UNCHANGED <<result, conn_fail_left>>
    /\ UNCHANGED <<captureVars, fwdVars, int_q, pending_chunks, end_reason, sendVars,
                   conn_lost_signal, recvVars, should_stop, sessionVars, stopVars,
                   written, constVars, subVars, callVars, chunkerVars>>

\* the session-configuration message of the provider
SessionInitMsg == IF provider = "Azure" THEN <<"session.update">>
                  ELSE <<"transcription_session.update">>

\* variant: the session configuration is reported sent but never written
SessionInit_unsent(ok) ==
    /\ main_pc = "SessionInit"
    /\ IF ok
       THEN /\ main_pc' = "Resend"
            /\ UNCHANGED <<events, faulted, wire>>
       ELSE /\ Emit(<<"ConnectionLost">>)
            /\ main_pc' = "LoopTop"
            /\ faulted' = TRUE
            /\ UNCHANGED wire
    /\ UNCHANGED <<captureVars, fwdVars, int_q, reconnect_attempts, is_first_connection,
                   pending_chunks, result, conn_ok_left, conn_fail_left, resend_set,
                   end_reason, sendVars, conn_lost_signal, recvVars, should_stop,
                   sessionVars, stopVars, sink_closed, written, constVars, subVars, callVars, chunkerVars>>

\* send_session_init and the caller's handling of its failure
SessionInit(ok) ==
    /\ main_pc = "SessionInit"
    /\ IF ok
       THEN /\ wire' = Append(wire, SessionInitMsg)
            /\ main_pc' = "Resend"
            /\ UNCHANGED <<events, faulted>>
       ELSE /\ Emit(<<"ConnectionLost">>)
            /\ main_pc' = "LoopTop"
            /\ faulted' = TRUE
            /\ UNCHANGED wire
    /\ UNCHANGED <<captureVars, fwdVars, int_q, reconnect_attempts, is_first_connection,
                   pending_chunks, result, conn_ok_left, conn_fail_left, resend_set,
                   end_reason, sendVars, conn_lost_signal, recvVars, should_stop,
                   sessionVars, stopVars, sink_closed, written, constVars, subVars, callVars, chunkerVars>>

\* variant: the resend loop starts one chunk too late
resend_skips_first(pending, k) ==
    [sent |-> SubSeq(pending, 2, k),
     ok |-> k = Len(pending),
     left |-> <<>>]

\* resend_*_buffered_chunks(ws_sink, &mut pending_chunks) when the first k
\* writes succeed: the chunks written, the Result, and what is left in the
\* caller's vector (drain(..) empties it also when the loop returns early)
resend_buffered_chunks(pending, k) ==
    [sent |-> SubSeq(pending, 1, k),
     ok |-> k = Len(pending),
     left |-> <<>>]

\* resend, then spawn the receive and the send task on the connection
Resend(k) ==
    /\ main_pc = "Resend"
    /\ k \in 0..Len(pending_chunks)
    /\ LET r == resend_buffered_chunks(pending_chunks, k) IN
       /\ wire' = wire \o AudioMsgs(r.sent)
       /\ written' = written \cup Range(r.sent)
       /\ pending_chunks' = r.left
       /\ IF r.ok
          THEN /\ main_pc' = "AwaitRecv"
               /\ recv_pc' = "Loop"
               /\ connection_ok' = TRUE
               /\ quota_exceeded' = FALSE
               /\ send_pc' = "Loop"
               /\ sent_buffer' = <<>>
               /\ conn_lost_signal' = FALSE
               /\ write_failed' = FALSE
               /\ UNCHANGED faulted
          ELSE /\ main_pc' = "LoopTop"
               /\ faulted' = TRUE
               /\ UNCHANGED <<recv_pc, connection_ok, quota_exceeded, send_pc,
                              sent_buffer, conn_lost_signal, write_failed>>
    /\ UNCHANGED <<captureVars, fwdVars, int_q, reconnect_attempts, is_first_connection,
                   result, conn_ok_left, conn_fail_left, resend_set, end_reason,
                   send_result, recovered, msgs_left, quota_idx, frames, should_stop,
                   sessionVars, stopVars, events, sink_closed, constVars, subVars, callVars, chunkerVars>>

\* recv_task.await returned; signal the send task
AwaitRecv ==
    /\ main_pc = "AwaitRecv"
    /\ recv_pc = "Done"
    /\ conn_lost_signal' = (send_pc = "Loop")
    /\ main_pc' = "AwaitSend"
    /\ UNCHANGED <<captureVars, fwdVars, int_q, reconnect_attempts, is_first_connection,
                   pending_chunks, result, conn_ok_left, conn_fail_left, resend_set,
                   end_reason, sendVars, recvVars, should_stop, sessionVars, stopVars,
                   events, wire, sink_closed, written, faulted, constVars, subVars, callVars, chunkerVars>>

\* variant: a receive-loop that ended without error does not end the session
SessionEnds_unless_ok(stop_flag, stopped_by_user, quota, ok) ==
    stop_flag \/ stopped_by_user \/ quota

\* mod.rs:332-345: the three tests that break out of the connection loop
SessionEnds(stop_flag, stopped_by_user, quota, ok) ==
    stop_flag \/ stopped_by_user \/ quota \/ ok

\* send_task.await returned; take its results and decide how to go on
AwaitSend ==
    /\ main_pc = "AwaitSend"
    /\ send_pc = "Done"
    /\ pending_chunks' = send_result.pending_chunks
    /\ IF SessionEnds(should_stop, send_result.stopped_by_user, quota_exceeded,
                      connection_ok)
       THEN /\ main_pc' = "AwaitForwarder"
            /\ end_reason' = IF should_stop \/ send_result.stopped_by_user THEN "stopped"
                             ELSE IF quota_exceeded THEN "quota"
                             ELSE "closed_normally"
            /\ UNCHANGED <<resend_set, sendVars, conn_lost_signal, recv_pc, connection_ok,
                           quota_exceeded, wire>>
       ELSE \* the connection is abandoned and both tasks are gone
            /\ main_pc' = "LoopTop"
            /\ send_pc' = "Idle"
            /\ recv_pc' = "Idle"
            /\ send_result' = [pending_chunks |-> <<>>, stopped_by_user |-> FALSE]
            /\ recovered' = [sent |-> <<>>, failed |-> <<>>, queued |-> <<>>]
            /\ write_failed' = FALSE
            /\ conn_lost_signal' = FALSE
            /\ connection_ok' = TRUE
            /\ quota_exceeded' = FALSE
            /\ resend_set' = <<>>
            /\ wire' = <<>>
            /\ UNCHANGED <<sent_buffer, end_reason>>
    /\ UNCHANGED <<captureVars, fwdVars, int_q, reconnect_attempts, is_first_connection,
                   result, conn_ok_left, conn_fail_left, msgs_left, quota_idx, frames,
                   should_stop, sessionVars, stopVars, events, sink_closed, written,
                   faulted, constVars, subVars, callVars, chunkerVars>>

\* audio_forwarder.await, then Ok(())
AwaitForwarder ==
    /\ main_pc = "AwaitForwarder"
    /\ fwd_pc = "Done"
    /\ main_pc' = "Returned"
    /\ result' = "Ok"
    /\ UNCHANGED <<captureVars, fwdVars, int_q, reconnect_attempts, is_first_connection,
                   pending_chunks, conn_ok_left, conn_fail_left, resend_set,
                   end_reason, sendVars, conn_lost_signal, recvVars, should_stop,
                   sessionVars, stopVars, events, wire, sink_closed, written, faulted,
                   constVars, subVars, callVars, chunkerVars>>


\* ---------------------------------------------------------------- send task
\* variant: the sent buffer is never trimmed
trim_sent_buffer_never(buf) == buf

\* trim_*_sent_buffer: every chunk holds CHUNK_SIZE samples at
\* TARGET_SAMPLE_RATE, so the duration test is stated in samples
RECURSIVE trim_sent_buffer(_)
trim_sent_buffer(buf) ==
    IF Len(buf) * CHUNK_SIZE > MAX_BUFFER_SECS * TARGET_SAMPLE_RATE /\ Len(buf) > 1
    THEN trim_sent_buffer(Tail(buf))
    ELSE buf

\* variant: the failed chunk is put in front of the sent buffer
recover_failed_first(sent, pend, queue) == pend \o sent \o queue

\* variant: what waited in the internal channel is put in front
recover_queued_first(sent, pend, queue) == queue \o sent \o pend

\* recover_*_buffered_chunks: sent buffer, then the chunk that failed, then
\* whatever try_recv still finds in the internal channel
recover_buffered_chunks(sent, pend, queue) == sent \o pend \o queue

\* the messages of send_azure_commit_and_create / send_openai_commit when the
\* first n writes succeed
CommitMsgs == IF provider = "Azure"
              THEN << <<"input_audio_buffer.commit">>, <<"response.create">> >>
              ELSE << <<"input_audio_buffer.commit">> >>

\* leave the loop with connection_lost = true
SendLost(failed, queue) ==
    /\ recovered' = [sent |-> sent_buffer, failed |-> failed, queued |-> queue]
    /\ send_result' = [pending_chunks |-> recover_buffered_chunks(sent_buffer, failed, queue),
                       stopped_by_user |-> FALSE]
    /\ int_q' = <<>>
    /\ sent_buffer' = <<>>
    /\ send_pc' = "Done"

\* select branch 1: the connection-lost signal
SendConnectionLost ==
    /\ send_pc = "Loop"
    /\ conn_lost_signal
    /\ SendLost(<<>>, int_q)
    /\ conn_lost_signal' = FALSE
    /\ UNCHANGED <<captureVars, fwdVars, mainVars, write_failed,
                   recvVars, should_stop, sessionVars, stopVars, events, wire,
                   sink_closed, written, faulted, constVars, subVars, callVars, chunkerVars>>

\* select branch 2: the keep-alive tick
SendPing(ok) ==
    /\ send_pc = "Loop"
    /\ ~conn_lost_signal
    /\ IF ok
       THEN UNCHANGED <<send_pc, sent_buffer, send_result, recovered, int_q,
                        write_failed, faulted>>
       ELSE /\ SendLost(<<>>, int_q)
            /\ write_failed' = TRUE
            /\ faulted' = TRUE
    /\ UNCHANGED <<captureVars, fwdVars, mainVars, conn_lost_signal,
                   recvVars, should_stop, sessionVars, stopVars, events, wire,
                   sink_closed, written, constVars, subVars, callVars, chunkerVars>>

\* variant: the sink is closed without a commit
SendFinish_uncommitted(n) ==
    /\ wire' = Append(wire, <<"close">>)
    /\ sink_closed' = TRUE
    /\ send_result' = [pending_chunks |-> <<>>, stopped_by_user |-> TRUE]
    /\ sent_buffer' = <<>>
    /\ send_pc' = "Done"

\* variant: the end of the audio is not reported as a stop by the user
SendFinish_unreported(n) ==
    /\ wire' = wire \o SubSeq(CommitMsgs, 1, n) \o << <<"close">> >>
    /\ sink_closed' = TRUE
    /\ send_result' = [pending_chunks |-> <<>>, stopped_by_user |-> FALSE]
    /\ sent_buffer' = <<>>
    /\ send_pc' = "Done"

\* commit (and response.create), close the sink, report stopped_by_user
SendFinish(n) ==
    /\ wire' = wire \o SubSeq(CommitMsgs, 1, n) \o << <<"close">> >>
    /\ sink_closed' = TRUE
    /\ send_result' = [pending_chunks |-> <<>>, stopped_by_user |-> TRUE]
    /\ sent_buffer' = <<>>
    /\ send_pc' = "Done"

\* select branch 3: audio_rx.recv() returned
SendChunk(ok, n) ==
    /\ send_pc = "Loop"
    /\ ~conn_lost_signal
    /\ n \in 0..Len(CommitMsgs)
    /\ int_q # <<>> \/ fwd_pc = "Done"
    /\ IF should_stop
       THEN \* the chunk just received, if any, is not sent
            /\ SendFinish(n)
            /\ int_q' = IF int_q = <<>> THEN int_q ELSE Tail(int_q)
            /\ faulted' = (faulted \/ n < Len(CommitMsgs))
            /\ UNCHANGED <<recovered, write_failed, written>>
       ELSE IF int_q # <<>>
            THEN IF ok
                 THEN /\ n = 0
                      /\ wire' = Append(wire, AudioMsg(Head(int_q)))
                      /\ written' = written \cup {Head(int_q)}
                      /\ sent_buffer' = trim_sent_buffer(Append(sent_buffer, Head(int_q)))
                      /\ int_q' = Tail(int_q)
                      /\ UNCHANGED <<send_pc, send_result, recovered, write_failed,
                                     sink_closed, faulted>>
                 ELSE /\ n = 0
                      /\ SendLost(<<Head(int_q)>>, Tail(int_q))
                      /\ write_failed' = TRUE
                      /\ faulted' = TRUE
                      /\ UNCHANGED <<wire, written, sink_closed>>
            ELSE \* None: the forwarder has closed the internal channel
                 /\ SendFinish(n)
                 /\ faulted' = (faulted \/ n < Len(CommitMsgs))
                 /\ UNCHANGED <<int_q, recovered, write_failed, written>>
    /\ UNCHANGED <<captureVars, fwdVars, mainVars, conn_lost_signal, recvVars,
                   should_stop, sessionVars, stopVars, events, constVars, subVars, callVars, chunkerVars>>


\* ------------------------------------------------------------- receive task
\* variant: a final segment is pushed but the partial stays
update_session_state_keeps_partial(is_final, text) ==
    IF is_final
    THEN /\ committed_segments' = Append(committed_segments, text)
         /\ UNCHANGED partial_transcript
    ELSE /\ partial_transcript' = Some(text)
         /\ UNCHANGED committed_segments

\* variant: the session is left as it was (the event is still sent)
update_session_state_skipped(is_final, text) ==
    UNCHANGED <<committed_segments, partial_transcript>>

\* update_*_session_state
update_session_state(is_final, text) ==
    IF is_final
    THEN /\ committed_segments' = Append(committed_segments, text)
         /\ partial_transcript' = None
    ELSE /\ partial_transcript' = Some(text)
         /\ UNCHANGED committed_segments

\* variant: a partial that trims to nothing is left in place
preserve_partial_keeps_blank ==
    IF partial_transcript # None /\ Trim(partial_transcript[1]) # <<>>
    THEN /\ committed_segments' = Append(committed_segments, partial_transcript[1])
         /\ partial_transcript' = None
    ELSE UNCHANGED <<committed_segments, partial_transcript>>

\* preserve_*_partial: take the partial; push it unless it trims to nothing
preserve_partial ==
    /\ partial_transcript' = None
    /\ committed_segments' =
          IF partial_transcript # None /\ Trim(partial_transcript[1]) # <<>>
          THEN Append(committed_segments, partial_transcript[1])
          ELSE committed_segments

\* variant: one test for both providers
IsBenignError_either(m) == "buffer too small" \in m \/ "empty" \in m

\* variant: Azure's test for either provider
IsBenignError_azure(m) == "buffer too small" \in m /\ "0.00ms" \in m

\* the test that swallows an expected provider error
IsBenignError(m) ==
    IF provider = "Azure"
    THEN "buffer too small" \in m /\ "0.00ms" \in m
    ELSE "buffer too small" \in m \/ "empty" \in m

\* the loop breaks because should_stop is set when a message arrives
RecvStopped ==
    /\ recv_pc' = "Done"
    /\ UNCHANGED <<connection_ok, quota_exceeded, quota_idx, frames, sessionVars, events>>

\* a delta (partial) or completed (final) transcription message
RecvTranscript(is_final, text) ==
    /\ recv_pc = "Loop"
    /\ msgs_left > 0
    /\ msgs_left' = msgs_left - 1
    /\ IF should_stop
       THEN RecvStopped
       ELSE /\ frames' = Append(frames, <<IF is_final THEN "completed" ELSE "delta", text>>)
            /\ update_session_state(is_final, text)
            /\ Emit(IF is_final THEN <<"CommittedTranscript", text>>
                    ELSE <<"PartialTranscript", text>>)
            /\ UNCHANGED <<recv_pc, connection_ok, quota_exceeded, quota_idx>>
    /\ UNCHANGED <<captureVars, fwdVars, int_q, mainVars, sendVars, conn_lost_signal,
                   should_stop, stopVars, wire, sink_closed, written, faulted, constVars, subVars, callVars, chunkerVars>>

\* an error message of the provider
RecvErrorMessage(m) ==
    /\ recv_pc = "Loop"
    /\ msgs_left > 0
    /\ msgs_left' = msgs_left - 1
    /\ IF should_stop
       THEN RecvStopped
       ELSE /\ frames' = Append(frames, <<"error", m>>)
            /\ IF IsBenignError(m)
               THEN UNCHANGED events
               ELSE Emit(<<"Error", m>>)
            /\ quota_idx' = IF "quota" \in m /\ quota_idx = -1
                            THEN Len(events) + 1 ELSE quota_idx
            /\ UNCHANGED <<recv_pc, connection_ok, quota_exceeded, sessionVars>>
    /\ UNCHANGED <<captureVars, fwdVars, int_q, mainVars, sendVars, conn_lost_signal,
                   should_stop, stopVars, wire, sink_closed, written, faulted, constVars, subVars, callVars, chunkerVars>>

\* variant: a frame that is not understood ends the loop as a read error does
RecvOther_fails ==
    /\ recv_pc = "Loop"
    /\ msgs_left > 0
    /\ msgs_left' = msgs_left - 1
    /\ IF should_stop
       THEN RecvStopped
       ELSE /\ frames' = Append(frames, <<"other">>)
            /\ recv_pc' = "Done"
            /\ connection_ok' = FALSE
            /\ Emit(<<"ConnectionLost">>)
            /\ UNCHANGED <<quota_exceeded, quota_idx, sessionVars>>
    /\ UNCHANGED <<captureVars, fwdVars, int_q, mainVars, sendVars, conn_lost_signal,
                   should_stop, stopVars, wire, sink_closed, written, faulted, constVars, subVars, callVars, chunkerVars>>

\* any other frame: unknown message type, unparsable text, a message that is
\* neither transcript nor error text, ping, pong, binary
RecvOther ==
    /\ recv_pc = "Loop"
    /\ msgs_left > 0
    /\ msgs_left' = msgs_left - 1
    /\ IF should_stop
       THEN RecvStopped
       ELSE /\ frames' = Append(frames, <<"other">>)
            /\ UNCHANGED <<recv_pc, connection_ok, quota_exceeded, quota_idx, sessionVars,
                           events>>
    /\ UNCHANGED <<captureVars, fwdVars, int_q, mainVars, sendVars, conn_lost_signal,
                   should_stop, stopVars, wire, sink_closed, written, faulted, constVars, subVars, callVars, chunkerVars>>

\* Message::Close (is_error = FALSE) or a read error (is_error = TRUE)
RecvCloseOrError(is_error) ==
    /\ recv_pc = "Loop"
    /\ recv_pc' = "Done"
    /\ faulted' = (faulted \/ ~sink_closed \/ is_error)
    /\ IF should_stop
       THEN UNCHANGED <<connection_ok, sessionVars, events>>
       ELSE /\ connection_ok' = FALSE
            /\ preserve_partial
            /\ IF is_error \/ ~quota_exceeded
               THEN Emit(<<"ConnectionLost">>)
               ELSE UNCHANGED events
    /\ UNCHANGED <<captureVars, fwdVars, int_q, mainVars, sendVars, conn_lost_signal,
                   quota_exceeded, msgs_left, quota_idx, frames, should_stop, stopVars, wire,
                   sink_closed, written, constVars, subVars, callVars, chunkerVars>>

\* the stream ends: ws_stream.next() returns None
RecvStreamEnd ==
    /\ recv_pc = "Loop"
    /\ recv_pc' = "Done"
    /\ faulted' = (faulted \/ ~sink_closed)
    /\ UNCHANGED <<captureVars, fwdVars, int_q, mainVars, sendVars, conn_lost_signal,
                   connection_ok, quota_exceeded, msgs_left, quota_idx, frames, should_stop,
                   sessionVars, stopVars, events, wire, sink_closed, written,
                   constVars, subVars, callVars, chunkerVars>>

\* ------------------------------------------------------------------- Next
ForwarderNext ==
    \/ audio_forwarder_recv
    \/ audio_forwarder_closed
    \/ audio_forwarder_send

MainNext ==
    \/ MainLoopTop
    \/ \E outcome \in ConnectOutcomes : Connect(outcome)
    \/ \E ok \in BOOLEAN : SessionInit(ok)
    \/ \E k \in 0..Len(pending_chunks) : Resend(k)
    \/ AwaitRecv
    \/ AwaitSend
    \/ AwaitForwarder

SendNext ==
    \/ SendConnectionLost
    \/ \E ok \in BOOLEAN : SendPing(ok)
    \/ \E ok \in BOOLEAN, n \in 0..Len(CommitMsgs) : SendChunk(ok, n)

\* receive-loop steps that end the loop
RecvLifecycleNext ==
    \/ \E is_error \in BOOLEAN : RecvCloseOrError(is_error)
    \/ RecvStreamEnd

RecvMessageNext ==
    \/ \E is_final \in BOOLEAN, text \in Texts : RecvTranscript(is_final, text)
    \/ \E m \in ErrorMsgs : RecvErrorMessage(m)
    \/ RecvOther

\* the audio path: capture, forwarder, send-loop, reconnection with resend
NextAudio ==
    \/ Produce
    \/ stop_audio_capture
    \/ ForwarderNext
    \/ MainNext
    \/ SendNext
    \/ RecvLifecycleNext

InitAudio ==
    InitWith(AudioChunks, 0, AudioAccepts, AudioRefusals) /\ calls_left = 0 /\ CaptureRunning

SpecAudio == InitAudio /\ [][NextAudio]_vars

\* the transcript path: provider messages, session, events, both kinds of stop
NextEvents ==
    \/ stop_audio_capture
    \/ stop
    \/ audio_forwarder_closed
    \/ MainNext
    \/ SendNext
    \/ RecvLifecycleNext
    \/ RecvMessageNext

InitEvents ==
    InitWith(0, EventMsgs, EventAccepts, EventRefusals) /\ calls_left = 0 /\ CaptureRunning

SpecEvents == InitEvents /\ [][NextEvents]_vars

\* the reconnection budget: many refused connection attempts
NextRetry ==
    \/ Produce
    \/ stop_audio_capture
    \/ ForwarderNext
    \/ MainNext
    \/ SendNext
    \/ RecvLifecycleNext

InitRetry ==
    InitWith(RetryChunks, 0, RetryAccepts, RetryRefusals) /\ calls_left = 0 /\ CaptureRunning

SpecRetry == InitRetry /\ [][NextRetry]_vars

\* the capture path: start, stream set-up, callbacks feeding the chunker, and
\* the forwarder taking chunks from the capture queue
NextCapture ==
    \/ start_capture_with_sample_rate
    \/ \E fault \in CaptureFaults \cup {"none"}, rate \in DeviceRates,
          ch \in DeviceChannels, resampler_ok \in BOOLEAN :
          run_capture(fault, rate, ch, resampler_ok)
    \/ \E nframes \in CallbackFrames : process_samples(nframes)
    \/ audio_forwarder_recv
    \/ audio_forwarder_closed
    \/ stop_audio_capture
    \/ drop_handle
    \/ AudioCaptureHandle_stop

\* start_capture_with_sample_rate has made the is_capturing flag and the queue
InitCapture ==
    /\ InitWith(0, 0, 0, 0) /\ calls_left = 0
    /\ start_result = "none"
    /\ capture_thread = "NotStarted"
    /\ device_rate = 0
    /\ channels = 0
    /\ resampler = FALSE
    /\ input_chunk_size = 0
    /\ callbacks_left = Callbacks

SpecCapture == InitCapture /\ [][NextCapture]_vars

\* ---------------------------------------------------------- session reads
\* slice::join
RECURSIVE join(_, _)
join(segments, sep) ==
    IF segments = <<>> THEN <<>>
    ELSE IF Len(segments) = 1 THEN segments[1]
    ELSE segments[1] \o sep \o join(Tail(segments), sep)

\* variant: the text still being heard is added at the end
full_transcript_with_partial(committed, partial) == join(committed \o partial, <<" ">>)

\* TranscriptionSession::full_transcript
full_transcript(committed, partial) == join(committed, <<" ">>)

\* a caller (event handler, transcription task, get_full_transcript) locks
\* the session and reads full_transcript
read_full_transcript ==
    /\ calls_left > 0
    /\ calls_left' = calls_left - 1
    /\ transcripts' = Append(transcripts,
                             [value |-> full_transcript(committed_segments,
                                                        partial_transcript),
                              committed |-> committed_segments,
                              partial |-> partial_transcript,
                              at |-> Len(frames)])
    /\ UNCHANGED <<screenshots, polish_transcript, captureVars, fwdVars, int_q, mainVars, sendVars, conn_lost_signal,
                   recvVars, should_stop, sessionVars, stopVars, events, wire,
                   sink_closed, written, faulted, constVars, subVars, chunkerVars>>

\* recording::get_full_transcript: the committed text, followed by the
\* partial when it does not trim to nothing
get_full_transcript(committed, partial) ==
    LET text == join(committed, <<" ">>)
    IN  IF partial # None /\ Trim(partial[1]) # <<>>
        THEN IF text = <<>> THEN partial[1] ELSE text \o <<" ">> \o partial[1]
        ELSE text

\* stop_recording_with_config: read the transcript, stop the capture, and
\* spawn the polishing task on the transcript read
stop_recording_with_config ==
    /\ capture_open
    /\ start_result = "Ok"
    /\ handle_dropped_at = -1
    /\ main_pc \notin {"Returned", "ReturnedErr"}
    /\ polish_transcript' = Some(get_full_transcript(committed_segments, partial_transcript))
    /\ manually_stopped' = TRUE
    /\ capture_open' = FALSE
    /\ stop_idx' = Len(events)
    /\ stop_conn' = IF send_pc = "Loop" /\ recv_pc = "Loop" /\ ~faulted
                    THEN conn_ok_left ELSE -1
    /\ stop_queued' = Queued
    /\ stop_calls' = stop_calls + 1
    /\ UNCHANGED <<next_chunk, audio_q, dropped, chunks_left, fwdVars, int_q, mainVars,
                   sendVars, conn_lost_signal, recvVars, should_stop, sessionVars, events,
                   wire, sink_closed, faulted, written, constVars, subVars, transcripts,
                   calls_left, screenshots, chunkerVars>>

\* variant: the reference is glued to the last committed segment
insert_screenshot_merged(relative_path) ==
    /\ Len(screenshots) < Screenshots
    /\ screenshots' = Append(screenshots, relative_path)
    /\ committed_segments' =
          IF committed_segments = <<>>
          THEN << <<"\n\n![Screenshot](", relative_path, ")\n\n">> >>
          ELSE [committed_segments EXCEPT ![Len(committed_segments)] =
                    @ \o <<"\n\n![Screenshot](", relative_path, ")\n\n">>]
    /\ UNCHANGED <<captureVars, fwdVars, int_q, mainVars, sendVars, conn_lost_signal,
                   recvVars, should_stop, partial_transcript, stopVars, events, wire,
                   sink_closed, written, faulted, constVars, subVars, transcripts, calls_left,
                   polish_transcript, chunkerVars>>

\* TranscriptionSession::insert_screenshot, called by on_screenshot with the
\* session locked: push the markdown reference
insert_screenshot(relative_path) ==
    /\ Len(screenshots) < Screenshots
    /\ screenshots' = Append(screenshots, relative_path)
    /\ committed_segments' =
          Append(committed_segments, <<"\n\n![Screenshot](", relative_path, ")\n\n">>)
    /\ UNCHANGED <<captureVars, fwdVars, int_q, mainVars, sendVars, conn_lost_signal,
                   recvVars, should_stop, partial_transcript, stopVars, events, wire,
                   sink_closed, written, faulted, constVars, subVars, transcripts, calls_left,
                   polish_transcript, chunkerVars>>

\* the session as the UI collaborators use it while a connection streams
\* transcripts: screenshots, the stop of the capture, clear_session
NextShots ==
    \/ MainLoopTop
    \/ \E outcome \in ConnectOutcomes : Connect(outcome)
    \/ \E ok \in BOOLEAN : SessionInit(ok)
    \/ \E k \in 0..Len(pending_chunks) : Resend(k)
    \/ \E is_final \in BOOLEAN, text \in Texts : RecvTranscript(is_final, text)
    \/ \E relative_path \in ScreenshotPaths : insert_screenshot(relative_path)
    \/ stop_audio_capture
    \/ clear_session

InitShots ==
    InitWith(0, ShotMsgs, 1, 0) /\ calls_left = 0 /\ CaptureRunning

SpecShots == InitShots /\ [][NextShots]_vars

\* the session path: one healthy connection, provider messages of every
\* kind, and reads of the transcript in between
NextSession ==
    \/ MainLoopTop
    \/ \E outcome \in ConnectOutcomes : Connect(outcome)
    \/ \E ok \in BOOLEAN : SessionInit(ok)
    \/ \E k \in 0..Len(pending_chunks) : Resend(k)
    \/ \E is_final \in BOOLEAN, text \in SessionTexts : RecvTranscript(is_final, text)
    \/ \E m \in SessionErrors : RecvErrorMessage(m)
    \/ RecvOther
    \/ read_full_transcript

InitSession ==
    InitWith(0, SessionMsgs, 1, 0) /\ calls_left = TranscriptCalls /\ CaptureRunning

SpecSession == InitSession /\ [][NextSession]_vars

\* one turn of run_event_handler for subscriber s: event_rx.recv() returns
\* the next retained event, which is handled, or Lagged when the channel has
\* overwritten it, and then the while-let loop is left
run_event_handler(s) ==
    /\ handler_running[s]
    /\ event_rx_next[s] < Len(events)
    /\ IF Len(events) - event_rx_next[s] > EventChannelCap
       THEN /\ event_rx_next' = [event_rx_next EXCEPT ![s] = Len(events) - EventChannelCap]
            /\ handler_running' = [handler_running EXCEPT ![s] = FALSE]
            /\ UNCHANGED handled
       ELSE /\ handled' = [handled EXCEPT ![s] = Append(@, events[event_rx_next[s] + 1])]
            /\ event_rx_next' = [event_rx_next EXCEPT ![s] = @ + 1]
            /\ UNCHANGED handler_running
    /\ UNCHANGED <<captureVars, fwdVars, int_q, mainVars, sendVars, conn_lost_signal,
                   recvVars, should_stop, sessionVars, stopVars, events, wire,
                   sink_closed, written, faulted, constVars, callVars, chunkerVars>>

\* recovery that fails after the handshake: the provider accepts every
\* connection; the first one works until it is lost, and on every later one
\* the session initialization fails
NextFlaky ==
    \/ Produce
    \/ audio_forwarder_recv
    \/ MainLoopTop
    \/ Connect("connected")
    \/ \E ok \in BOOLEAN : (ok => events = <<>>) /\ SessionInit(ok)
    \/ Resend(0)
    \/ \E ok \in BOOLEAN : SendChunk(ok, 0)
    \/ \E is_error \in BOOLEAN : RecvCloseOrError(is_error)
    \/ AwaitRecv
    \/ SendConnectionLost
    \/ AwaitSend

InitFlaky ==
    InitWith(FlakyChunks, 0, FlakyAccepts, 0) /\ calls_left = 0 /\ CaptureRunning

SpecFlaky == InitFlaky /\ [][NextFlaky]_vars

\* the end of recovery: transcript messages on a connection, its loss, and
\* refused attempts up to the budget
NextTerminal ==
    \/ MainLoopTop
    \/ \E outcome \in ConnectOutcomes : Connect(outcome)
    \/ \E ok \in BOOLEAN : SessionInit(ok)
    \/ \E k \in 0..Len(pending_chunks) : Resend(k)
    \/ AwaitRecv
    \/ AwaitSend
    \/ SendConnectionLost
    \/ RecvLifecycleNext
    \/ \E is_final \in BOOLEAN, text \in Texts : RecvTranscript(is_final, text)

InitTerminal ==
    InitWith(0, TerminalMsgs, TerminalAccepts, RetryRefusals)
        /\ calls_left = 0 /\ CaptureRunning

SpecTerminal == InitTerminal /\ [][NextTerminal]_vars

\* everything that writes committed_segments: transcript messages, the loss
\* of the connection (preserving the partial), screenshots, clear_session,
\* and the engine steps around a connection
NextSegments ==
    \/ MainLoopTop
    \/ \E outcome \in ConnectOutcomes : Connect(outcome)
    \/ \E ok \in BOOLEAN : SessionInit(ok)
    \/ \E k \in 0..Len(pending_chunks) : Resend(k)
    \/ AwaitRecv
    \/ AwaitSend
    \/ SendConnectionLost
    \/ \E is_error \in BOOLEAN : RecvCloseOrError(is_error)
    \/ \E is_final \in BOOLEAN, text \in Texts : RecvTranscript(is_final, text)
    \/ \E relative_path \in ScreenshotPaths : insert_screenshot(relative_path)
    \/ clear_session

InitSegments ==
    InitWith(0, SegmentMsgs, SegmentAccepts, 0) /\ calls_left = 0 /\ CaptureRunning

SpecSegments == InitSegments /\ [][NextSegments]_vars

\* a recording that the user stops: capture, the engine on its connection,
\* transcripts from the provider, and stop_recording
NextPolish ==
    \/ Produce
    \/ stop_recording_with_config
    \/ audio_forwarder_recv
    \/ audio_forwarder_closed
    \/ MainNext
    \/ SendNext
    \/ RecvLifecycleNext
    \/ \E is_final \in BOOLEAN, text \in Texts : RecvTranscript(is_final, text)

InitPolish ==
    InitWith(PolishChunks, PolishMsgs, 1, 0) /\ calls_left = 0 /\ CaptureRunning

SpecPolish == InitPolish /\ [][NextPolish]_vars

\* passthrough capture: callbacks of several sizes on a stream at the target
\* rate, and the forwarder taking chunks from the capture queue
NextDirect ==
    \/ \E n \in DirectFrames : process_direct(n)
    \/ audio_forwarder_recv

InitDirect ==
    /\ InitWith(0, 0, 0, 0) /\ calls_left = 0
    /\ start_result = "Ok"
    /\ capture_thread = "Running"
    /\ device_rate = target_sample_rate
    /\ channels = 1
    /\ resampler = FALSE
    /\ input_chunk_size = CHUNK_SIZE
    /\ callbacks_left = DirectCallbacks

SpecDirect == InitDirect /\ [][NextDirect]_vars

\* the chunks that fill the sent buffer to max_buffer_secs
Window == (MAX_BUFFER_SECS * TARGET_SAMPLE_RATE) \div CHUNK_SIZE

\* the rolling window: the first connection is up, the send-loop has sent
\* the first n chunks, all still in its sent buffer, and capture goes on
NextWindow ==
    \/ Produce
    \/ audio_forwarder_recv
    \/ audio_forwarder_send
    \/ \E ok \in BOOLEAN : SendChunk(ok, 0)

InitWindow ==
    \E n \in {Window - 1, Window} :
        /\ chunks_left = WindowChunks
        /\ msgs_left = 0
        /\ conn_ok_left = 0
        /\ conn_fail_left = 0
        /\ provider \in Providers
        /\ request_ok = TRUE
        /\ capture_open = TRUE
        /\ next_chunk = n + 1
        /\ audio_q = <<>>
        /\ dropped = {}
        /\ fwd_pc = "Recv"
        /\ fwd_chunk = None
        /\ int_q = <<>>
        /\ main_pc = "AwaitRecv"
        /\ reconnect_attempts = 0
        /\ is_first_connection = FALSE
        /\ pending_chunks = <<>>
        /\ result = "none"
        /\ send_pc = "Loop"
        /\ sent_buffer = [i \in 1..n |-> i]
        /\ send_result = [pending_chunks |-> <<>>, stopped_by_user |-> FALSE]
        /\ conn_lost_signal = FALSE
        /\ recv_pc = "Loop"
        /\ connection_ok = TRUE
        /\ quota_exceeded = FALSE
        /\ should_stop = FALSE
        /\ committed_segments = <<>>
        /\ partial_transcript = None
        /\ manually_stopped = FALSE
        /\ events = <<>>
        /\ wire = <<SessionInitMsg>> \o [i \in 1..n |-> AudioMsg(i)]
        /\ sink_closed = FALSE
        /\ written = 1..n
        /\ resend_set = <<>>
        /\ recovered = [sent |-> <<>>, failed |-> <<>>, queued |-> <<>>]
        /\ write_failed = FALSE
        /\ faulted = FALSE
        /\ end_reason = "none"
        /\ quota_idx = -1
        /\ stop_idx = -1
        /\ stop_conn = -1
        /\ stop_queued = <<>>
        /\ stop_calls = 0
        /\ frames = <<>>
        /\ transcripts = <<>>
        /\ polish_transcript = None
        /\ calls_left = 0
        /\ screenshots = <<>>
        /\ target_sample_rate = (IF provider = "Azure" THEN AZURE_SAMPLE_RATE
                                 ELSE OPENAI_SAMPLE_RATE)
        /\ capture_error = None
        /\ input_buf = 0
        /\ output_buf = 0
        /\ mono_in = <<>>
        /\ out_samples = <<>>
        /\ emitted = <<>>
        /\ chunk_log = [i \in 1..n |-> [samples |-> CHUNK_SIZE,
                                         sample_rate |-> TARGET_SAMPLE_RATE]]
        /\ handle_dropped_at = -1
        /\ event_rx_next = [s \in Subscribers |-> 0]
        /\ handled = [s \in Subscribers |-> <<>>]
        /\ handler_running = [s \in Subscribers |-> TRUE]
        /\ CaptureRunning

SpecWindow == InitWindow /\ [][NextWindow]_vars

\* one second of capture: the stream plays at 48 kHz for a target of 16 kHz
\* with a resampler, and the device hands over one second of frames in equal
\* callbacks
NextSecond ==
    process_samples(device_rate \div SecondCallbacks)

InitSecond ==
    /\ InitWith(0, 0, 0, 0) /\ calls_left = 0
    /\ provider = "Azure"
    /\ start_result = "Ok"
    /\ capture_thread = "Running"
    /\ device_rate = 48000
    /\ channels \in DeviceChannels
    /\ resampler = TRUE
    /\ input_chunk_size = input_frames(device_rate, target_sample_rate)
    /\ callbacks_left = SecondCallbacks

SpecSecond == InitSecond /\ [][NextSecond]_vars

\* the subscriber path: one connection, transcript messages and its end,
\* and two event handlers that read at their own pace
NextSubscribers ==
    \/ MainLoopTop
    \/ \E outcome \in ConnectOutcomes : Connect(outcome)
    \/ \E ok \in BOOLEAN : SessionInit(ok)
    \/ \E k \in 0..Len(pending_chunks) : Resend(k)
    \/ \E is_final \in BOOLEAN, text \in Texts : RecvTranscript(is_final, text)
    \/ \E is_error \in BOOLEAN : RecvCloseOrError(is_error)
    \/ \E s \in Subscribers : run_event_handler(s)

InitSubscribers ==
    InitWith(0, SubscriberMsgs, 1, 0) /\ calls_left = 0 /\ CaptureRunning

SpecSubscribers == InitSubscribers /\ [][NextSubscribers]_vars

\* the provider path: one connection of either provider, server messages of
\* every kind, and the end of the connection by a Close frame or a read error
NextProviders ==
    \/ MainLoopTop
    \/ \E outcome \in ConnectOutcomes : Connect(outcome)
    \/ \E ok \in BOOLEAN : SessionInit(ok)
    \/ \E k \in 0..Len(pending_chunks) : Resend(k)
    \/ \E is_final \in BOOLEAN, text \in Texts : RecvTranscript(is_final, text)
    \/ \E m \in SessionErrors : RecvErrorMessage(m)
    \/ RecvOther
    \/ \E is_error \in BOOLEAN : RecvCloseOrError(is_error)

InitProviders ==
    InitWith(0, ProviderMsgs, 1, 0) /\ calls_left = 0 /\ CaptureRunning

SpecProviders == InitProviders /\ [][NextProviders]_vars

\* ------------------------------------------------------------- properties
IsPrefix(p, q) == Len(p) =< Len(q) /\ SubSeq(q, 1, Len(p)) = p

StrictlyIncreasing(q) == \A i, j \in DOMAIN q : i < j => q[i] < q[j]

\* chunks the engine has taken from the capture queue
Taken == ((1..(next_chunk - 1)) \ dropped) \ Range(audio_q)

\* chunks the engine still holds for sending
Held == Range(int_q) \cup Range(fwd_chunk) \cup Range(pending_chunks)
        \cup Range(send_result.pending_chunks)

\* C1: once the tasks of a connection run, the audio written on it starts
\* with the whole recovered pending set, in the recovered order; whatever the
\* send-loop writes comes after it.
C1_ResendBeforeNew ==
    send_pc # "Idle" => IsPrefix(resend_set, AudioOf(wire))

\* C1 witness: a recovered set was resent and the send-loop then wrote a new chunk
C1_Witness ==
    /\ send_pc = "Loop"
    /\ resend_set # <<>>
    /\ Len(AudioOf(wire)) > Len(resend_set)
    /\ IsPrefix(resend_set, AudioOf(wire))

\* C2: while the session runs and TranscriptionClient::stop was not called,
\* every chunk taken from the capture queue has been written to a connection
\* or is still held for sending (internal queue, forwarder, pending set).
C2_NoChunkLost ==
    (~Terminated /\ ~should_stop) => \A c \in Taken : c \in written \/ c \in Held

\* C2 scenario: a chunk of the pending set was lost in a failed resend
C2_Scenario ==
    /\ main_pc = "LoopTop"
    /\ faulted
    /\ \E c \in Taken : c \notin written /\ c \notin Held

\* the attempt numbers of the Reconnecting events since the last Reconnected
RECURSIVE AttemptsSinceReconnected(_)
AttemptsSinceReconnected(evs) ==
    IF evs = <<>> THEN <<>>
    ELSE LET last == evs[Len(evs)]
             init == SubSeq(evs, 1, Len(evs) - 1)
         IN IF last[1] = "Reconnected" THEN <<>>
            ELSE IF last[1] = "Reconnecting"
                 THEN Append(AttemptsSinceReconnected(init), last[2])
                 ELSE AttemptsSinceReconnected(init)

\* C3: with no successful reconnection in between, the Reconnecting events
\* carry attempt = 1, 2, ... in order and never more than
\* MAX_RECONNECT_ATTEMPTS; ReconnectFailed is emitted only after attempts
\* 1..5 have all been announced, and it is the last event of the session.
C3_ReconnectBudget ==
    LET a == AttemptsSinceReconnected(events) IN
    /\ a = [i \in 1..Len(a) |-> i]
    /\ Len(a) =< MAX_RECONNECT_ATTEMPTS
    /\ \A i \in DOMAIN events :
          events[i][1] = "ReconnectFailed" =>
             /\ i = Len(events)
             /\ a = [j \in 1..MAX_RECONNECT_ATTEMPTS |-> j]

\* C3 witness: the connection was lost, every later attempt was refused and
\* the engine gave up
C3_Witness ==
    /\ events # <<>>
    /\ events[Len(events)][1] = "ReconnectFailed"
    /\ conn_fail_left = 0
    /\ AttemptsSinceReconnected(events) = <<1, 2, 3, 4, 5>>

\* C4: a failed connection attempt (request not built, handshake error,
\* timeout) returns Err without any event when it is the first attempt; on a
\* later attempt it returns nothing and puts the engine back at the head of
\* the reconnect loop.  A session that returned Err has emitted no event.
C4_FirstFailureFatal ==
    /\ [](result = "Err" => events = <<>> /\ is_first_connection)
    /\ [][(main_pc = "Connect" /\ main_pc' \notin {"Connect", "SessionInit"}) =>
             IF is_first_connection
             THEN main_pc' = "ReturnedErr" /\ result' = "Err" /\ events' = events
             ELSE main_pc' = "LoopTop" /\ result' = "none"]_vars

\* C4 witness: a connection attempt after the first was refused and the
\* engine is back at the head of the loop without a result
C4_Witness ==
    /\ main_pc = "LoopTop"
    /\ ~is_first_connection
    /\ conn_fail_left < RetryRefusals
    /\ result = "none"
    /\ events # <<>>
    /\ events[Len(events)] = <<"ConnectionLost">>

\* C7: once ReconnectFailed is emitted, start_azure/start_openai has returned
\* or some step of the engine or of the capture side can still be taken.
C7_ReturnsAfterReconnectFailed ==
    (events # <<>> /\ events[Len(events)][1] = "ReconnectFailed") =>
        (result = "Ok" \/ ENABLED NextRetry)

\* this step emits ConnectionLost
EmitsConnectionLost ==
    /\ Len(events') = Len(events) + 1
    /\ events'[Len(events')] = <<"ConnectionLost">>

\* C5 as stated: a step that emits ConnectionLost leaves partial_transcript
\* None and has appended the text of any partial transcript to
\* committed_segments.
C5_PartialAlwaysCommitted ==
    [][EmitsConnectionLost =>
          /\ partial_transcript' = None
          /\ partial_transcript # None =>
                committed_segments' = Append(committed_segments, partial_transcript[1])]_vars

\* C5, amended: a step that emits ConnectionLost leaves partial_transcript
\* None; a partial transcript with a non-whitespace character has been appended
\* to committed_segments, one of whitespace only has been discarded.
C5_NonBlankPartialCommitted ==
    [][EmitsConnectionLost =>
          /\ partial_transcript' = None
          /\ committed_segments' =
                IF partial_transcript # None /\ Trim(partial_transcript[1]) # <<>>
                THEN Append(committed_segments, partial_transcript[1])
                ELSE committed_segments]_vars

\* C5 witness: ConnectionLost was emitted right after a partial transcript
\* with text, which is now the last committed segment
C5_Witness ==
    /\ Len(events) >= 2
    /\ events[Len(events)] = <<"ConnectionLost">>
    /\ events[Len(events) - 1] = <<"PartialTranscript", <<"h", "i">> >>
    /\ partial_transcript = None
    /\ committed_segments = << <<"h", "i">> >>

\* C9: after the provider's quota error no Reconnecting event is emitted.
C9_QuotaEndsSession ==
    quota_idx # -1 =>
        \A i \in DOMAIN events : i > quota_idx => events[i][1] # "Reconnecting"

\* C9 scenario: the quota error was delivered as an Error event and the
\* engine announced a reconnection afterwards
C9_Scenario ==
    /\ quota_idx # -1
    /\ events[quota_idx] = <<"Error", {"quota"}>>
    /\ \E i \in DOMAIN events : i > quota_idx /\ events[i][1] = "Reconnecting"

\* the user stopped capture while both tasks ran on an unbroken connection,
\* nothing broke that connection afterwards, and the main loop has been left
StoppedOnHealthyConnection ==
    /\ stop_conn = conn_ok_left
    /\ ~faulted
    /\ ~should_stop
    /\ main_pc \in {"AwaitForwarder", "Returned"}

\* the chunks queued at the stop are the last audio written on the
\* connection, in order, and commit and close follow them
DrainedThenCommitted ==
    /\ Queued = <<>>
    /\ LET a == AudioOf(wire)
           n == Len(stop_queued)
       IN Len(a) >= n /\ SubSeq(a, Len(a) - n + 1, Len(a)) = stop_queued
    /\ Range(stop_queued) \subseteq written
    /\ Len(wire) >= Len(CommitMsgs) + 1
    /\ SubSeq(wire, Len(wire) - Len(CommitMsgs), Len(wire)) = CommitMsgs \o << <<"close">> >>

NoEventAfterStop(name) ==
    \A i \in DOMAIN events : i > stop_idx => events[i][1] # name

\* C6 as stated: after a stop by the user on a healthy connection the
\* queued chunks are written, commit is sent, the send task reports
\* stopped_by_user, and no ConnectionLost is emitted after the stop.
C6_StopWithoutConnectionLost ==
    StoppedOnHealthyConnection =>
        /\ DrainedThenCommitted
        /\ send_result.stopped_by_user
        /\ NoEventAfterStop("ConnectionLost")

\* C6, amended: after a stop by the user on a healthy connection the queued
\* chunks are written, commit is sent, the send task reports stopped_by_user
\* and the engine does not reconnect; ConnectionLost may still be emitted.
C6_StopDrainsAndCommits ==
    StoppedOnHealthyConnection =>
        /\ DrainedThenCommitted
        /\ send_result.stopped_by_user
        /\ end_reason = "stopped"
        /\ NoEventAfterStop("Reconnecting")
        /\ NoEventAfterStop("ReconnectFailed")

\* C6 witness: the user stopped with two chunks queued, both were written,
\* the session ended, and ConnectionLost was emitted after the stop
C6_Witness ==
    /\ StoppedOnHealthyConnection
    /\ result = "Ok"
    /\ Len(stop_queued) = 2
    /\ Range(stop_queued) \subseteq written
    /\ send_result.stopped_by_user
    /\ ~NoEventAfterStop("ConnectionLost")

\* C8: a session whose send-loop saw a write fail, and that was not stopped,
\* does not leave the main loop.
C8_WriteFailureReconnects ==
    (write_failed /\ ~should_stop /\ ~manually_stopped) => end_reason = "none"

\* C8 scenario: after a failed write the stream ended without Close or
\* error and the main loop was left, its pending chunks unsent
C8_Scenario ==
    /\ write_failed
    /\ ~manually_stopped
    /\ main_pc = "AwaitForwarder"
    /\ end_reason = "closed_normally"
    /\ pending_chunks # <<>>

\* the main loop holds a recovered set that has not been resent yet
HoldsResendSet == main_pc \in {"LoopTop", "Connect", "SessionInit", "Resend"}

\* C10 as stated: when the new connection is ready for the resend of a
\* recovered set, every chunk that arrived from capture meanwhile is part of
\* that set.
C10_ResendSetHasAllArrivals ==
    (main_pc = "Resend" /\ pending_chunks # <<>>) =>
        Range(int_q) \subseteq Range(pending_chunks)

\* C10, amended: the set the send task hands back on a connection loss is the
\* sent buffer, then the chunk whose write failed (at most one), then the
\* chunks that were in the internal queue at that moment, in capture order;
\* chunks that arrive later stay queued behind the resend set, in capture order.
C10_ResendSetAtLoss ==
    /\ (send_pc = "Done" /\ ~send_result.stopped_by_user) =>
          /\ send_result.pending_chunks =
                recovered.sent \o recovered.failed \o recovered.queued
          /\ Len(recovered.failed) =< 1
          /\ StrictlyIncreasing(send_result.pending_chunks \o Queued)
    /\ HoldsResendSet => StrictlyIncreasing(pending_chunks \o Queued)

\* C10 witness: a write failed with chunks in the sent buffer and in the
\* internal queue; the set handed back has all three parts
C10_Witness ==
    /\ send_pc = "Done"
    /\ recovered.sent # <<>>
    /\ recovered.failed # <<>>
    /\ recovered.queued # <<>>
    /\ Len(send_result.pending_chunks) = 3

\* C11: on every connection the session-configuration message is the first
\* message written; every audio-append message, resent or new, comes after it.
C11_SessionInitBeforeAudio ==
    \A i \in DOMAIN wire :
        wire[i][1] = "audio" => (i > 1 /\ wire[1] = SessionInitMsg)

\* C11 witness: on a reconnect the configuration was written, then a resent
\* chunk, then a new chunk
C11_Witness ==
    /\ "Reconnected" \in {events[i][1] : i \in DOMAIN events}
    /\ resend_set # <<>>
    /\ Len(wire) >= 3
    /\ wire[1] = SessionInitMsg
    /\ wire[2] = AudioMsg(resend_set[1])
    /\ Len(AudioOf(wire)) > Len(resend_set)


\* the session a frame log leads to, by the rule for transcript messages: a
\* partial replaces the partial, a final is appended and clears the partial
RECURSIVE Replay(_)
Replay(fs) ==
    IF fs = <<>> THEN [committed |-> <<>>, partial |-> None]
    ELSE LET s == Replay(SubSeq(fs, 1, Len(fs) - 1))
             f == fs[Len(fs)]
         IN  CASE f[1] = "delta" -> [committed |-> s.committed, partial |-> Some(f[2])]
               [] f[1] = "completed" ->
                     [committed |-> Append(s.committed, f[2]), partial |-> None]
               [] OTHER -> s

\* C12: after any sequence of partial and final transcript messages the
\* session is what the rule gives: each partial replaced the partial, each
\* final was appended to committed_segments and cleared the partial; after
\* partial "hel", partial "hello", final "hello" it holds ["hello"] and None.
C12_SessionFollowsTranscripts ==
    Replay(frames) = [committed |-> committed_segments, partial |-> partial_transcript]

C12_Witness ==
    /\ frames = << <<"delta", <<"h", "e", "l">> >>,
                   <<"delta", <<"h", "e", "l", "l", "o">> >>,
                   <<"completed", <<"h", "e", "l", "l", "o">> >> >>
    /\ committed_segments = << <<"h", "e", "l", "l", "o">> >>
    /\ partial_transcript = None

RECURSIVE SumLen(_)
SumLen(segments) ==
    IF segments = <<>> THEN 0 ELSE Len(segments[1]) + SumLen(Tail(segments))

\* where segment i starts in a text that puts one separator between segments
Offset(segments, i) == SumLen(SubSeq(segments, 1, i - 1)) + (i - 1)

\* text is the segments in order with exactly one space between neighbours
SpaceJoined(text, segments) ==
    /\ Len(text) = SumLen(segments) + (IF segments = <<>> THEN 0 ELSE Len(segments) - 1)
    /\ \A i \in DOMAIN segments :
          /\ SubSeq(text, Offset(segments, i) + 1, Offset(segments, i) + Len(segments[i]))
                = segments[i]
          /\ i < Len(segments) => text[Offset(segments, i) + Len(segments[i]) + 1] = " "

\* C13: every value full_transcript returned is the committed segments of
\* the session it was called on, in order, with exactly one space between
\* neighbours and nothing of the partial; the call leaves the session as it
\* was, and two calls with no message handled in between return the same value.
C13_FullTranscriptJoinsCommitted ==
    /\ [](\A i \in DOMAIN transcripts :
            /\ SpaceJoined(transcripts[i].value, transcripts[i].committed)
            /\ (i + 1 \in DOMAIN transcripts /\ transcripts[i + 1].at = transcripts[i].at)
                  => transcripts[i + 1].value = transcripts[i].value)
    /\ [][transcripts' # transcripts => UNCHANGED sessionVars]_vars

C13_Witness ==
    /\ Len(transcripts) = 2
    /\ transcripts[1].at = transcripts[2].at
    /\ Len(transcripts[1].committed) = 2
    /\ transcripts[1].partial # None
    /\ committed_segments = transcripts[2].committed
    /\ partial_transcript = transcripts[2].partial

\* the text is the provider's notice of an empty audio buffer at a commit
ExpectedNoise(m) ==
    CASE provider = "Azure" -> {"buffer too small", "0.00ms"} \subseteq m
      [] provider = "OpenAI" -> m \cap {"buffer too small", "empty"} # {}

C19_UnknownFrameIgnored ==
    [][frames' = Append(frames, <<"other">>) =>
          /\ UNCHANGED <<events, sessionVars>>
          /\ recv_pc = "Loop" /\ recv_pc' = "Loop"
          /\ connection_ok' = connection_ok
          /\ conn_ok_left' = conn_ok_left]_vars

\* C19 witness: such a frame was handled, then a final transcript on the
\* same connection
C19_Witness ==
    /\ Len(frames) = 2
    /\ frames[1] = <<"other">>
    /\ frames[2][1] = "completed"
    /\ committed_segments = <<frames[2][2]>>
    /\ events[Len(events)] = <<"CommittedTranscript", frames[2][2]>>

\* C20: on any single connection the audio chunks written, resent ones and
\* new ones, are in strictly increasing capture order.
C20_CaptureOrderOnConnection == StrictlyIncreasing(AudioOf(wire))

\* C20 witness: after a reconnection two or more chunks were resent and a
\* new chunk was written behind them
C20_Witness ==
    /\ "Reconnected" \in {events[i][1] : i \in DOMAIN events}
    /\ Len(resend_set) >= 2
    /\ IsPrefix(resend_set, AudioOf(wire))
    /\ Len(AudioOf(wire)) > Len(resend_set)

\* C14: every chunk the chunker made, with or without the resampler, holds
\* exactly CHUNK_SIZE samples.
C14_ChunksHaveChunkSize ==
    \A c \in DOMAIN chunk_log : chunk_log[c].samples = CHUNK_SIZE

\* C14 witness: the resampling path made two chunks and holds a remainder
C14_Witness ==
    /\ resampler
    /\ Len(chunk_log) >= 2
    /\ output_buf > 0
    /\ Range(audio_q) # {}

\* C15: every chunk carries the rate capture was started with.
C15_ChunksCarryTargetRate ==
    \A c \in DOMAIN chunk_log : chunk_log[c].sample_rate = target_sample_rate

\* C15 scenario: capture was started for OpenAI and a chunk is in the queue
C15_Scenario ==
    /\ provider = "OpenAI"
    /\ target_sample_rate = OPENAI_SAMPLE_RATE
    /\ audio_q # <<>>
    /\ chunk_log[Head(audio_q)].sample_rate = AZURE_SAMPLE_RATE

\* the stream plays and a callback is due
CallbackDue == capture_thread = "Running" /\ capture_open /\ callbacks_left > 0

\* C16: a due callback can always run, whatever the device hands over and
\* whatever the queue holds; the queue
\* never exceeds its capacity; a chunk is dropped only when the queue is full,
\* every chunk made is either enqueued or dropped, and capture stays on.
C16_CallbackNeverBlocks ==
    /\ [](/\ CallbackDue => \A nframes \in CallbackFrames : ENABLED process_samples(nframes)
          /\ Len(audio_q) =< AudioQueueCap)
    /\ [][next_chunk' > next_chunk =>
             /\ \A c \in next_chunk..(next_chunk' - 1) :
                   (c \in Range(audio_q')) # (c \in dropped')
             /\ dropped' # dropped => Len(audio_q') = AudioQueueCap
             /\ capture_thread' = "Running" /\ capture_open']_vars

\* C16 witness: a chunk was dropped on a full queue and a chunk made after
\* it is in the queue
C16_Witness ==
    \E d \in dropped, c \in Range(audio_q) : c > d

\* C17: when run_capture ended with an AudioCaptureError, the call
\* start_capture_with_sample_rate returned that error, not Ok.
C17_CaptureFailureReturned ==
    capture_error # None => start_result = "Err"

\* C17 scenario: no input device; the caller holds Ok and a handle
C17_Scenario ==
    /\ capture_error = Some("NoInputDevice")
    /\ capture_thread = "Failed"
    /\ start_result = "Ok"

\* the last Reconnecting or Reconnected event before event i, or 0
LastReconnectEvent(i) ==
    LET before == {j \in 1..(i - 1) : events[j][1] \in {"Reconnecting", "Reconnected"}}
    IN  IF before = {} THEN 0 ELSE CHOOSE j \in before : \A k \in before : k =< j

CleanEnd == recv_pc = "Done" /\ connection_ok

\* a step that emits ConnectionLost or Reconnecting
EmitsLossOrRetry ==
    /\ Len(events') = Len(events) + 1
    /\ events'[Len(events')][1] \in {"ConnectionLost", "Reconnecting"}

\* C28: the step that ends the receive-loop without error, and every step
\* after it, emits neither ConnectionLost nor Reconnecting and does not take
\* the engine back to a connection attempt; when the engine has left the
\* loop the connection is recorded as closed normally.
C28_CleanEndTerminates ==
    /\ [](CleanEnd => /\ main_pc \in {"AwaitRecv", "AwaitSend", "AwaitForwarder", "Returned"}
                      /\ main_pc \in {"AwaitForwarder", "Returned"} =>
                            end_reason \in {"closed_normally", "stopped"})
    /\ [][/\ CleanEnd' => ~EmitsLossOrRetry
          /\ CleanEnd => main_pc' \in {"AwaitRecv", "AwaitSend", "AwaitForwarder",
                                       "Returned"}]_vars

\* C28 witness: the stream ended while the send-loop was running; the engine
\* signalled the send task, took its result and left the loop
C28_Witness ==
    /\ CleanEnd
    /\ main_pc = "AwaitForwarder"
    /\ end_reason = "closed_normally"
    /\ recovered.sent # <<>>
    /\ ~manually_stopped

\* the connection's writes end with the first n commit messages and the
\* close, and nothing before them is a commit message or a close
EndsWithCommit(n) ==
    /\ Len(wire) >= n + 1
    /\ SubSeq(wire, Len(wire) - n, Len(wire)) = SubSeq(CommitMsgs, 1, n) \o << <<"close">> >>
    /\ \A i \in 1..(Len(wire) - n - 1) : wire[i] = SessionInitMsg \/ wire[i][1] = "audio"

\* C30: when the send-loop has closed the stream, it has reported
\* stopped-by-user with nothing pending, and what it wrote last on the
\* connection, after every audio append, is the commit sequence as far as its
\* writes succeeded (all of it when nothing failed) and then the close; once
\* stopped-by-user is reported the engine emits no Reconnecting and goes to
\* no new connection attempt.
C30_StopCommitsAndEnds ==
    /\ [](sink_closed =>
            /\ send_pc = "Done"
            /\ send_result = [pending_chunks |-> <<>>, stopped_by_user |-> TRUE]
            /\ \E n \in 0..Len(CommitMsgs) :
                  EndsWithCommit(n) /\ (~faulted => n = Len(CommitMsgs)))
    /\ [][send_result.stopped_by_user =>
             /\ main_pc' \in {"AwaitRecv", "AwaitSend", "AwaitForwarder", "Returned"}
             /\ ~(Len(events') > Len(events)
                    /\ events'[Len(events')][1] = "Reconnecting")]_vars

\* C30 witness: the user stopped capture; on Azure the commit was written
\* after the last audio, response.create failed, the stream was closed and
\* the engine left the loop
C30_Witness ==
    /\ provider = "Azure"
    /\ manually_stopped
    /\ Len(wire) >= 4
    /\ SubSeq(wire, Len(wire) - 2, Len(wire)) =
          << AudioMsg(next_chunk - 1), <<"input_audio_buffer.commit">>, <<"close">> >>
    /\ send_result.stopped_by_user
    /\ main_pc = "AwaitForwarder"
    /\ end_reason = "stopped"

\* C24: with should_stop set, whatever wakes the send-loop makes it take the
\* stop path (commit, close, stopped-by-user), and whatever message wakes the
\* receive-loop ends it with no event and no change of the session.
C24_StopCheckedAtEveryWake ==
    [][should_stop =>
          /\ (send_pc = "Loop" /\ send_pc' = "Done") =>
                (send_result'.stopped_by_user /\ sink_closed')
          /\ (recv_pc = "Loop" /\ msgs_left' < msgs_left) =>
                (recv_pc' = "Done" /\ UNCHANGED <<events, sessionVars>>)]_vars

\* C24 scenario: should_stop was set, the next message ended the receive-loop
\* unhandled, the engine signalled the send task, and the send-loop left on
\* the connection-lost signal: no commit, no close, not stopped-by-user
C24_Scenario ==
    /\ should_stop
    /\ msgs_left < EventMsgs /\ frames = <<>>
    /\ recv_pc = "Done"
    /\ send_pc = "Done"
    /\ ~write_failed
    /\ ~send_result.stopped_by_user
    /\ ~sink_closed

\* C22: no step takes manually_stopped from true back to false.
C22_ManuallyStoppedOneWay ==
    [][manually_stopped => manually_stopped']_vars

\* C22 scenario: the user stopped capture, the engine is still running on
\* the session, and the flag is false again
C22_Scenario ==
    /\ stop_idx # -1
    /\ ~manually_stopped
    /\ main_pc \notin {"AwaitForwarder", "Returned", "ReturnedErr"}
    /\ recv_pc = "Loop"
    /\ committed_segments # <<>>

\* the markdown reference insert_screenshot makes of a path
ScreenshotRef(relative_path) == <<"\n\n![Screenshot](", relative_path, ")\n\n">>

\* C23: each insert_screenshot call appends exactly one segment, the
\* reference to its path, after all committed segments, and leaves those
\* segments and the partial transcript as they were; so two calls leave two
\* segments in call order.
C23_ScreenshotAppendsOneSegment ==
    [][screenshots' # screenshots =>
          \E relative_path \in ScreenshotPaths :
              /\ screenshots' = Append(screenshots, relative_path)
              /\ committed_segments' =
                    Append(committed_segments, ScreenshotRef(relative_path))
              /\ partial_transcript' = partial_transcript]_vars

\* C23 witness: two screenshots with committed speech before and between
\* them and a partial transcript pending
C23_Witness ==
    /\ Len(screenshots) = 2
    /\ screenshots[1] # screenshots[2]
    /\ Len(committed_segments) = 4
    /\ committed_segments[1] = <<"h", "i">>
    /\ committed_segments[2] = ScreenshotRef(screenshots[1])
    /\ committed_segments[3] = <<"h", "i">>
    /\ committed_segments[4] = ScreenshotRef(screenshots[2])

\* a handled frame as the event it stands for, whichever provider sent it: an
\* error text is a benign error or another error by the provider's own notice
AbstractEvent(f) ==
    IF f[1] = "error"
    THEN IF ExpectedNoise(f[2]) THEN <<"benign_error">> ELSE <<"other_error", f[2]>>
    ELSE f

\* the events and the session a sequence of frames leads to; the provider
\* enters only through the classification of error texts
RECURSIVE EngineOutcome(_)
EngineOutcome(fs) ==
    IF fs = <<>> THEN [events |-> <<>>, committed |-> <<>>, partial |-> None]
    ELSE LET s == EngineOutcome(SubSeq(fs, 1, Len(fs) - 1))
             e == AbstractEvent(fs[Len(fs)])
         IN  CASE e[1] = "delta" ->
                     [events |-> Append(s.events, <<"PartialTranscript", e[2]>>),
                      committed |-> s.committed, partial |-> Some(e[2])]
               [] e[1] = "completed" ->
                     [events |-> Append(s.events, <<"CommittedTranscript", e[2]>>),
                      committed |-> Append(s.committed, e[2]), partial |-> None]
               [] e[1] = "other_error" ->
                     [events |-> Append(s.events, <<"Error", e[2]>>),
                      committed |-> s.committed, partial |-> s.partial]
               [] OTHER -> s

\* what a Close frame or a read error adds to an outcome: ConnectionLost, and
\* the partial kept as a segment unless it trims to nothing
OutcomeClosed(s) ==
    [events |-> Append(s.events, <<"ConnectionLost">>),
     committed |-> IF s.partial # None /\ Trim(s.partial[1]) # <<>>
                   THEN Append(s.committed, s.partial[1]) ELSE s.committed,
     partial |-> None]

EngineState ==
    [events |-> events, committed |-> committed_segments, partial |-> partial_transcript]

C21_OrderedAndNeverBlocked ==
    /\ [](\A s \in Subscribers :
             /\ Len(handled[s]) <= Len(events)
             /\ handled[s] = SubSeq(events, 1, Len(handled[s])))
    /\ []((recv_pc = "Loop" /\ msgs_left > 0) =>
             \A is_final \in BOOLEAN, text \in Texts :
                ENABLED RecvTranscript(is_final, text))
    /\ [](recv_pc = "Loop" => \A is_error \in BOOLEAN : ENABLED RecvCloseOrError(is_error))

\* C21 witness: the engine emitted more events than the channel retains
\* while subscriber 1 had received none of them and its handler still ran;
\* subscriber 2 had received them all
C21_Witness ==
    /\ Len(events) > EventChannelCap + 1
    /\ handler_running[1] /\ handled[1] = <<>>
    /\ handled[2] = events

\* C26: once the AudioCaptureHandle has been dropped, capture is stopped
\* (is_capturing is cleared, so the capture thread leaves its loop), and no
\* further chunk is enqueued.
C26_DropStopsCapture ==
    /\ [](handle_dropped_at # -1 => ~capture_open)
    /\ [][handle_dropped_at # -1 => next_chunk' = next_chunk]_vars

\* C26 scenario: the handle was dropped while the stream played; is_capturing
\* is still set, the capture thread still runs, and a chunk made after the
\* drop is in the capture queue
C26_Scenario ==
    /\ handle_dropped_at # -1
    /\ capture_open
    /\ capture_thread = "Running"
    /\ \E i \in DOMAIN audio_q : audio_q[i] >= handle_dropped_at

\* C27: with the device at 48 kHz, the target at 16 kHz and a resampler, once
\* one second of frames (48000) has gone through process_samples the chunker
\* has made exactly 10 chunks, each of 1600 samples labelled 16000 Hz.
C27_OneSecondGivesTenChunks ==
    (resampler /\ device_rate = 48000 /\ target_sample_rate = 16000
        /\ callbacks_left = 0) =>
       /\ Len(chunk_log) = 10
       /\ \A c \in DOMAIN chunk_log :
             chunk_log[c] = [samples |-> 1600, sample_rate |-> 16000]

\* C27 scenario: the second has been fed, the resampler returned a few
\* samples fewer than 16000 in all, and the chunker has made 9 chunks; the
\* rest waits in output_buffer, short of a chunk
C27_Scenario ==
    /\ resampler /\ device_rate = 48000 /\ target_sample_rate = 16000
    /\ input_chunk_size = 4800
    /\ callbacks_left = 0
    /\ input_buf = 0
    /\ Len(chunk_log) = 9
    /\ output_buf >= CHUNK_SIZE - SecondCallbacks
    /\ output_buf < CHUNK_SIZE

IsSuffix(p, q) == Len(p) =< Len(q) /\ SubSeq(q, Len(q) - Len(p) + 1, Len(q)) = p

\* the duration of a buffer of chunks, in samples at the rate of their label
BufferSamples(buf) == Len(buf) * CHUNK_SIZE

\* C31: after every successful audio write of the send-loop its sent buffer
\* holds the chunks most recently written on the connection, in send order,
\* the written chunk last; it spans at most 30 seconds unless it holds one
\* chunk; it is what is left of the buffer with the chunk appended when only
\* oldest chunks are removed, and it is not empty.
C31_SentBufferIsRollingWindow ==
    [][\A c \in 1..next_chunk :
          (send_pc = "Loop" /\ wire' = Append(wire, AudioMsg(c))) =>
             /\ sent_buffer' # <<>>
             /\ sent_buffer'[Len(sent_buffer')] = c
             /\ IsSuffix([i \in DOMAIN sent_buffer' |-> AudioMsg(sent_buffer'[i])], wire')
             /\ IsSuffix(sent_buffer', Append(sent_buffer, c))
             /\ \/ BufferSamples(sent_buffer') <= MAX_BUFFER_SECS * TARGET_SAMPLE_RATE
                \/ Len(sent_buffer') = 1]_vars

\* C31 witness: a buffer that held 30 seconds took one more chunk and lost
\* its oldest one; the oldest chunk sent on the connection is no longer in it
C31_Witness ==
    /\ Len(sent_buffer) = Window
    /\ Len(wire) > Window + 1
    /\ wire[2][1] = "audio" /\ sent_buffer[1] > wire[2][2]
    /\ wire[Len(wire)] = AudioMsg(sent_buffer[Len(sent_buffer)])

\* C32: when a connection on which chunks were resent is lost in turn, the
\* set kept for the next resend contains every chunk that was resent on it.
C32_ResentChunksStayPending ==
    [][(main_pc = "AwaitSend" /\ main_pc' = "LoopTop") =>
          \A i \in DOMAIN resend_set : resend_set[i] \in Range(pending_chunks')]_vars

\* C32 scenario: chunks were resent on a reconnected connection, that
\* connection was lost, and the send task hands back a pending set without
\* the first of them; the engine is about to reconnect with that set
C32_Scenario ==
    /\ main_pc = "AwaitSend" /\ send_pc = "Done"
    /\ ~SessionEnds(should_stop, send_result.stopped_by_user, quota_exceeded,
                    connection_ok)
    /\ <<"Reconnected">> \in Range(events)
    /\ resend_set # <<>>
    /\ \A i \in DOMAIN resend_set : AudioMsg(resend_set[i]) \in Range(wire)
    /\ resend_set[1] \notin Range(send_result.pending_chunks)
    /\ Len(resend_set \o recovered.sent) * CHUNK_SIZE
          < MAX_BUFFER_SECS * TARGET_SAMPLE_RATE

\* the Reconnecting events emitted so far
ReconnectingEvents == {i \in DOMAIN events : events[i][1] = "Reconnecting"}

\* C33: with a provider that accepts every connection and then fails the
\* session initialization of every recovery, the attempts count against the
\* budget: no more than MAX_RECONNECT_ATTEMPTS recoveries are begun, and a
\* failed recovery leaves the counter above zero.
C33_FailedRecoveryCounts ==
    /\ [](Cardinality(ReconnectingEvents) <= MAX_RECONNECT_ATTEMPTS)
    /\ [][(main_pc = "SessionInit" /\ main_pc' = "LoopTop" /\ events # <<>>) =>
             reconnect_attempts' > 0]_vars

\* C33 scenario: six recoveries were begun, each announced as attempt 1,
\* each connection was accepted and lost at the session initialization, and
\* ReconnectFailed has not been emitted; the counter is at zero again
C33_Scenario ==
    /\ Cardinality(ReconnectingEvents) > MAX_RECONNECT_ATTEMPTS
    /\ \A i \in ReconnectingEvents : events[i] = <<"Reconnecting", 1>>
    /\ <<"ReconnectFailed">> \notin Range(events)
    /\ conn_ok_left = 0
    /\ main_pc = "LoopTop"
    /\ reconnect_attempts = 0

\* C34: every Reconnecting event with attempt 1 comes after a ConnectionLost
\* event with no Reconnected event in between.
C34_LossAnnouncedBeforeRecovery ==
    \A i \in DOMAIN events :
        events[i] = <<"Reconnecting", 1>> =>
            \E j \in 1..(i - 1) :
                /\ events[j] = <<"ConnectionLost">>
                /\ \A k \in (j + 1)..(i - 1) : events[k] # <<"Reconnected">>

\* C34 scenario: after a reconnection the resend of pending audio failed on
\* a write; the engine went back to the head of its loop and announced
\* attempt 1 directly after Reconnected
C34_Scenario ==
    /\ Len(events) >= 2
    /\ events[Len(events) - 1] = <<"Reconnected">>
    /\ events[Len(events)] = <<"Reconnecting", 1>>
    /\ main_pc = "Connect"
    /\ pending_chunks = <<>>
    /\ faulted

\* C35: ReconnectFailed, once emitted, is the last event, and from then on
\* no step emits an event or changes the transcript of the session.
C35_ReconnectFailedIsTerminal ==
    /\ [](\A i \in DOMAIN events :
             events[i] = <<"ReconnectFailed">> => i = Len(events))
    /\ [][(\E i \in DOMAIN events : events[i] = <<"ReconnectFailed">>) =>
             UNCHANGED <<events, committed_segments, partial_transcript>>]_vars

\* C35 witness: transcripts were received, the connection was lost, the
\* budget ran out with a connection still on offer, ReconnectFailed was
\* emitted and the engine has left its loop
C35_Witness ==
    /\ events # <<>>
    /\ events[Len(events)] = <<"ReconnectFailed">>
    /\ committed_segments # <<>>
    /\ conn_ok_left > 0
    /\ main_pc = "AwaitForwarder"
    /\ end_reason = "reconnect_failed"

\* the events after position i that replace or take the partial transcript
ReplacedAfter(i) ==
    \E j \in (i + 1)..Len(events) :
        events[j][1] \in {"PartialTranscript", "CommittedTranscript", "ConnectionLost"}

\* C36: the step that emits a transcript event has stored its text in the
\* session, and when a subscriber receives CommittedTranscript{text} the
\* text is in committed_segments; when it receives PartialTranscript{text}
\* the session holds that partial unless a later event has replaced it.
C36_SessionUpdatedBeforeEvent ==
    [][/\ \A text \in Texts :
             /\ events' = Append(events, <<"CommittedTranscript", text>>) =>
                   /\ committed_segments' = Append(committed_segments, text)
                   /\ partial_transcript' = None
             /\ events' = Append(events, <<"PartialTranscript", text>>) =>
                   partial_transcript' = Some(text)
       /\ \A s \in Subscribers :
             handled'[s] # handled[s] =>
                LET i == Len(handled'[s])
                    e == events[i]
                IN  /\ handled'[s] = Append(handled[s], e)
                    /\ e[1] = "CommittedTranscript" => e[2] \in Range(committed_segments)
                    /\ e[1] = "PartialTranscript" =>
                          (partial_transcript = Some(e[2]) \/ ReplacedAfter(i))]_vars

\* C36 witness: a subscriber has received a partial that the session still
\* holds, after a committed transcript it received earlier, while the other
\* subscriber has received nothing
C36_Witness ==
    /\ Len(handled[1]) = 2
    /\ handled[1][1][1] = "CommittedTranscript"
    /\ handled[1][2][1] = "PartialTranscript"
    /\ committed_segments = <<handled[1][1][2]>>
    /\ partial_transcript = Some(handled[1][2][2])
    /\ handled[2] = <<>>

\* everything but the count of stop calls
ExceptStopCalls ==
    <<captureVars, fwdVars, int_q, mainVars, sendVars, conn_lost_signal, recvVars,
      should_stop, sessionVars, manually_stopped, stop_idx, stop_conn, stop_queued,
      events, wire, sink_closed, faulted, written, constVars, subVars, callVars,
      chunkerVars>>

\* C37: once AudioCaptureHandle::stop has returned the capture side is
\* closed and no chunk is made or enqueued any more; the consumer takes the
\* chunks still queued, oldest first, and sees end-of-stream only on an empty
\* queue, and both of these stay possible; a further call of stop changes
\* nothing.
C37_StopClosesQueue ==
    /\ [](stop_calls >= 1 => ~capture_open)
    /\ [][stop_calls >= 1 =>
            /\ next_chunk' = next_chunk
            /\ dropped' = dropped
            /\ chunk_log' = chunk_log
            /\ \/ audio_q' = audio_q
               \/ /\ audio_q # <<>>
                  /\ audio_q' = Tail(audio_q)
                  /\ \/ int_q' = Append(int_q, Head(audio_q))
                     \/ fwd_chunk' = Some(Head(audio_q))
            /\ (fwd_pc = "Recv" /\ fwd_pc' = "Done") => audio_q = <<>>
            /\ stop_calls' # stop_calls => UNCHANGED ExceptStopCalls]_vars
    /\ []((stop_calls >= 1 /\ fwd_pc = "Recv") =>
            IF audio_q = <<>> THEN ENABLED audio_forwarder_closed
                              ELSE ENABLED audio_forwarder_recv)

\* C37 witness: stop has been called twice on a playing stream with
\* callbacks still to come, a chunk is still queued and the consumer has yet
\* to take it
C37_Witness ==
    /\ stop_calls = 2
    /\ capture_thread = "Running"
    /\ callbacks_left > 0
    /\ audio_q # <<>>
    /\ fwd_pc = "Recv"

\* C38: a step that handles a provider message, ends the receive-loop or
\* inserts a screenshot leaves committed_segments a prefix of its new value;
\* a step that does not is clear_session, which leaves the default session.
C38_SegmentsAppendOnly ==
    [][/\ (frames' # frames \/ recv_pc' # recv_pc \/ screenshots' # screenshots) =>
             IsPrefix(committed_segments, committed_segments')
       /\ ~IsPrefix(committed_segments, committed_segments') =>
             /\ committed_segments' = <<>>
             /\ partial_transcript' = None
             /\ ~manually_stopped'
             /\ UNCHANGED <<frames, recv_pc, screenshots, events>>]_vars

\* C38 witness: a committed text, a screenshot reference and a partial
\* preserved at the loss of the connection are in the sequence, in that
\* order
C38_Witness ==
    /\ Len(committed_segments) = 3
    /\ Len(frames) = 2
    /\ frames[1] = <<"completed", committed_segments[1]>>
    /\ Len(screenshots) = 1
    /\ committed_segments[2] = <<"\n\n![Screenshot](", screenshots[1], ")\n\n">>
    /\ frames[2] = <<"delta", committed_segments[3]>>
    /\ recv_pc = "Done"
    /\ partial_transcript = None

\* C39: once the session has ended, the transcript that stop_recording
\* handed to polishing equals the transcript of the session.
C39_PolishedIsFinalTranscript ==
    (polish_transcript # None /\ main_pc = "Returned") =>
        polish_transcript[1] = get_full_transcript(committed_segments, partial_transcript)

\* C39 scenario: the user stopped with audio queued and nothing transcribed
\* yet; the send-loop wrote the queued audio, the provider's final text
\* arrived after the stop, and the session ended with a transcript that the
\* polishing task never saw
C39_Scenario ==
    /\ polish_transcript = Some(<<>>)
    /\ main_pc = "Returned"
    /\ stop_queued # <<>>
    /\ Range(stop_queued) \subseteq written
    /\ committed_segments = << <<"h", "i">> >>
    /\ events[stop_idx + 1] = <<"CommittedTranscript", <<"h", "i">> >>

RECURSIVE Concat(_)
Concat(chunks) == IF chunks = <<>> THEN <<>> ELSE Head(chunks) \o Concat(Tail(chunks))

============================================================================
